---- MODULE Spec2Model ----
(***************************************************************************)
(* Model of the chess rules engine (src/js/engine.js): game state, move    *)
(* generation, legality filtering, move application, notation and          *)
(* termination detection.                                                  *)
(*                                                                         *)
(* Conventions: a JavaScript null piece is the record EMPTY, a null        *)
(* en-passant target is NoSquare, an absent move field is "-" (promotion,  *)
(* castling) or FALSE (enPassant), and a JavaScript string is a sequence   *)
(* of one-character strings.  Arrays indexed from 0 are functions on 0..7. *)
(***************************************************************************)
EXTENDS Integers, Sequences, FiniteSets, TLC

\* ───────── Piece constants (engine.js 7-16) ─────────
EMPTY == [color |-> "-", type |-> "-"]
WHITE == "w"
BLACK == "b"
PAWN == "P"
KNIGHT == "N"
BISHOP == "B"
ROOK == "R"
QUEEN == "Q"
KING == "K"

NoSquare == [row |-> -1, col |-> -1]
Sq(r, c) == [row |-> r, col |-> c]
Piece(color, type) == [color |-> color, type |-> type]

Mv(from, to, promotion, enPassant, castling) ==
  [from |-> from, to |-> to, promotion |-> promotion,
   enPassant |-> enPassant, castling |-> castling]
Plain(from, to) == Mv(from, to, "-", FALSE, "-")

RECURSIVE Concat(_)
Concat(ss) == IF ss = <<>> THEN <<>> ELSE Head(ss) \o Concat(Tail(ss))

Abs(x) == IF x < 0 THEN -x ELSE x

\* ───────── Helpers (engine.js 133-170) ─────────
inBounds(r, c) == r >= 0 /\ r < 8 /\ c >= 0 /\ c < 8

opponent(color) == IF color = WHITE THEN BLACK ELSE WHITE

\* first king of the colour in row-major order, NoSquare for null
findKing(board, color) ==
  LET hits == { i \in 0..63 : board[i \div 8][i % 8] = Piece(color, KING) }
  IN IF hits = {} THEN NoSquare
     ELSE LET i == CHOOSE k \in hits : \A j \in hits : k <= j
          IN Sq(i \div 8, i % 8)

\* ───────── Pseudo-legal move generation (engine.js 174-299) ─────────
PromoKinds == <<QUEEN, ROOK, BISHOP, KNIGHT>>
KnightOffsets ==
  << <<-2,-1>>, <<-2,1>>, <<-1,-2>>, <<-1,2>>, <<1,-2>>, <<1,2>>, <<2,-1>>, <<2,1>> >>
KingOffsets ==
  << <<-1,-1>>, <<-1,0>>, <<-1,1>>, <<0,-1>>, <<0,1>>, <<1,-1>>, <<1,0>>, <<1,1>> >>
DiagDirs == << <<-1,-1>>, <<-1,1>>, <<1,-1>>, <<1,1>> >>
StraightDirs == << <<-1,0>>, <<1,0>>, <<0,-1>>, <<0,1>> >>

RECURSIVE slideRay(_, _, _, _, _, _, _)
slideRay(board, color, from, r, c, dr, dc) ==
  IF ~inBounds(r, c) THEN <<>>
  ELSE IF board[r][c] # EMPTY
       THEN IF board[r][c].color # color THEN << Plain(from, Sq(r, c)) >> ELSE <<>>
       ELSE << Plain(from, Sq(r, c)) >> \o slideRay(board, color, from, r + dr, c + dc, dr, dc)

slideMoves(board, color, from, dirs) ==
  Concat([i \in 1..Len(dirs) |->
            slideRay(board, color, from, from.row + dirs[i][1], from.col + dirs[i][2],
                     dirs[i][1], dirs[i][2])])

stepMoves(board, color, from, offsets) ==
  Concat([i \in 1..Len(offsets) |->
            LET nr == from.row + offsets[i][1]
                nc == from.col + offsets[i][2]
            IN IF inBounds(nr, nc) /\ (board[nr][nc] = EMPTY \/ board[nr][nc].color # color)
               THEN << Plain(from, Sq(nr, nc)) >> ELSE <<>>])

\* variant of pawnMoves: a capture on the farthest rank is not expanded into promotions
pawnMovesCapturePlain(state, color, from) ==
  LET board == state.board
      r == from.row
      c == from.col
      dir == IF color = WHITE THEN -1 ELSE 1
      startRow == IF color = WHITE THEN 6 ELSE 1
      promoRow == IF color = WHITE THEN 0 ELSE 7
      nr == r + dir
      nr2 == r + 2 * dir
      landing(to) ==
        IF nr = promoRow
        THEN [k \in 1..4 |-> Mv(from, to, PromoKinds[k], FALSE, "-")]
        ELSE << Plain(from, to) >>
      forward ==
        IF inBounds(nr, c) /\ board[nr][c] = EMPTY
        THEN landing(Sq(nr, c)) \o
             (IF r = startRow /\ board[nr2][c] = EMPTY
              THEN << Plain(from, Sq(nr2, c)) >> ELSE <<>>)
        ELSE <<>>
      capture(dc) ==
        LET nc == c + dc
        IN IF ~inBounds(nr, nc) THEN <<>>
           ELSE (IF board[nr][nc] # EMPTY /\ board[nr][nc].color # color
                 THEN << Plain(from, Sq(nr, nc)) >> ELSE <<>>) \o
                (IF state.enPassant # NoSquare /\ state.enPassant.row = nr
                    /\ state.enPassant.col = nc
                 THEN << Mv(from, Sq(nr, nc), "-", TRUE, "-") >> ELSE <<>>)
  IN forward \o capture(-1) \o capture(1)

pawnMoves(state, color, from) ==
  LET board == state.board
      r == from.row
      c == from.col
      dir == IF color = WHITE THEN -1 ELSE 1
      startRow == IF color = WHITE THEN 6 ELSE 1
      promoRow == IF color = WHITE THEN 0 ELSE 7
      nr == r + dir
      nr2 == r + 2 * dir
      landing(to) ==
        IF nr = promoRow
        THEN [k \in 1..4 |-> Mv(from, to, PromoKinds[k], FALSE, "-")]
        ELSE << Plain(from, to) >>
      forward ==
        IF inBounds(nr, c) /\ board[nr][c] = EMPTY
        THEN landing(Sq(nr, c)) \o
             (IF r = startRow /\ board[nr2][c] = EMPTY
              THEN << Plain(from, Sq(nr2, c)) >> ELSE <<>>)
        ELSE <<>>
      capture(dc) ==
        LET nc == c + dc
        IN IF ~inBounds(nr, nc) THEN <<>>
           ELSE (IF board[nr][nc] # EMPTY /\ board[nr][nc].color # color
                 THEN landing(Sq(nr, nc)) ELSE <<>>) \o
                (IF state.enPassant # NoSquare /\ state.enPassant.row = nr
                    /\ state.enPassant.col = nc
                 THEN << Mv(from, Sq(nr, nc), "-", TRUE, "-") >> ELSE <<>>)
  IN forward \o capture(-1) \o capture(1)

castleRight(castling, color, side) ==
  IF color = WHITE THEN (IF side = "K" THEN castling.wK ELSE castling.wQ)
  ELSE (IF side = "K" THEN castling.bK ELSE castling.bQ)

kingMoves(state, color, from) ==
  LET board == state.board
      row == IF color = WHITE THEN 7 ELSE 0
  IN stepMoves(board, color, from, KingOffsets) \o
     (IF from.row = row /\ from.col = 4
      THEN (IF castleRight(state.castling, color, "K")
               /\ board[row][5] = EMPTY /\ board[row][6] = EMPTY
               /\ board[row][7] = Piece(color, ROOK)
            THEN << Mv(from, Sq(row, 6), "-", FALSE, "K") >> ELSE <<>>) \o
           (IF castleRight(state.castling, color, "Q")
               /\ board[row][3] = EMPTY /\ board[row][2] = EMPTY /\ board[row][1] = EMPTY
               /\ board[row][0] = Piece(color, ROOK)
            THEN << Mv(from, Sq(row, 2), "-", FALSE, "Q") >> ELSE <<>>)
      ELSE <<>>)

pieceMoves(state, color, r, c) ==
  LET p == state.board[r][c]
      from == Sq(r, c)
  IN IF p = EMPTY \/ p.color # color THEN <<>>
     ELSE CASE p.type = PAWN -> pawnMoves(state, color, from)
            [] p.type = KNIGHT -> stepMoves(state.board, color, from, KnightOffsets)
            [] p.type = BISHOP -> slideMoves(state.board, color, from, DiagDirs)
            [] p.type = ROOK -> slideMoves(state.board, color, from, StraightDirs)
            [] p.type = QUEEN -> slideMoves(state.board, color, from, DiagDirs \o StraightDirs)
            [] p.type = KING -> kingMoves(state, color, from)
            [] OTHER -> <<>>

getPseudoMoves(state, color) ==
  Concat([i \in 1..64 |-> pieceMoves(state, color, (i - 1) \div 8, (i - 1) % 8)])

\* ───────── Attack detection (engine.js 303-364) ─────────
RECURSIVE rayHits(_, _, _, _, _, _, _)
rayHits(board, r, c, dr, dc, byColor, types) ==
  IF ~inBounds(r, c) THEN FALSE
  ELSE IF board[r][c] # EMPTY
       THEN board[r][c].color = byColor /\ board[r][c].type \in types
       ELSE rayHits(board, r + dr, c + dc, dr, dc, byColor, types)

stepHits(board, row, col, offsets, byColor, type) ==
  \E i \in 1..Len(offsets) :
    LET r == row + offsets[i][1]
        c == col + offsets[i][2]
    IN inBounds(r, c) /\ board[r][c] = Piece(byColor, type)

\* variant of isSquareAttacked: the pawn is looked for one row ahead of the square
\* in the pawn's direction of travel
isSquareAttackedPawnAhead(board, row, col, byColor) ==
  LET pawnDir == IF byColor = WHITE THEN -1 ELSE 1
  IN \/ stepHits(board, row, col, KnightOffsets, byColor, KNIGHT)
     \/ stepHits(board, row, col, KingOffsets, byColor, KING)
     \/ stepHits(board, row, col, << <<pawnDir, -1>>, <<pawnDir, 1>> >>, byColor, PAWN)
     \/ \E i \in 1..4 :
          rayHits(board, row + DiagDirs[i][1], col + DiagDirs[i][2],
                  DiagDirs[i][1], DiagDirs[i][2], byColor, {BISHOP, QUEEN})
     \/ \E i \in 1..4 :
          rayHits(board, row + StraightDirs[i][1], col + StraightDirs[i][2],
                  StraightDirs[i][1], StraightDirs[i][2], byColor, {ROOK, QUEEN})

isSquareAttacked(board, row, col, byColor) ==
  LET pawnDir == IF byColor = WHITE THEN 1 ELSE -1
  IN \/ stepHits(board, row, col, KnightOffsets, byColor, KNIGHT)
     \/ stepHits(board, row, col, KingOffsets, byColor, KING)
     \/ stepHits(board, row, col, << <<pawnDir, -1>>, <<pawnDir, 1>> >>, byColor, PAWN)
     \/ \E i \in 1..4 :
          rayHits(board, row + DiagDirs[i][1], col + DiagDirs[i][2],
                  DiagDirs[i][1], DiagDirs[i][2], byColor, {BISHOP, QUEEN})
     \/ \E i \in 1..4 :
          rayHits(board, row + StraightDirs[i][1], col + StraightDirs[i][2],
                  StraightDirs[i][1], StraightDirs[i][2], byColor, {ROOK, QUEEN})

isInCheck(board, color) ==
  LET king == findKing(board, color)
  IN IF king = NoSquare THEN FALSE
     ELSE isSquareAttacked(board, king.row, king.col, opponent(color))

\* ───────── Move application on a board (engine.js 398-424) ─────────
\* variant of applyMoveToBoard: the en-passant capture empties the destination row
applyMoveToBoardTargetRow(board, move) ==
  LET piece == board[move.from.row][move.from.col]
      b1 == [board EXCEPT ![move.from.row][move.from.col] = EMPTY]
      b2 == IF move.enPassant
            THEN [b1 EXCEPT ![move.to.row][move.to.col] = EMPTY]
            ELSE b1
      row == move.from.row
      b3 == IF move.castling = "-" THEN b2
            ELSE IF move.castling = "K"
                 THEN [b2 EXCEPT ![row][5] = b2[row][7], ![row][7] = EMPTY]
                 ELSE [b2 EXCEPT ![row][3] = b2[row][0], ![row][0] = EMPTY]
  IN IF move.promotion # "-"
     THEN [b3 EXCEPT ![move.to.row][move.to.col] = Piece(piece.color, move.promotion)]
     ELSE [b3 EXCEPT ![move.to.row][move.to.col] = piece]

\* variant of applyMoveToBoard: the castling rook is copied and its corner not emptied
applyMoveToBoardRookCopied(board, move) ==
  LET piece == board[move.from.row][move.from.col]
      b1 == [board EXCEPT ![move.from.row][move.from.col] = EMPTY]
      b2 == IF move.enPassant
            THEN [b1 EXCEPT ![move.from.row][move.to.col] = EMPTY]
            ELSE b1
      row == move.from.row
      b3 == IF move.castling = "-" THEN b2
            ELSE IF move.castling = "K"
                 THEN [b2 EXCEPT ![row][5] = b2[row][7]]
                 ELSE [b2 EXCEPT ![row][3] = b2[row][0]]
  IN IF move.promotion # "-"
     THEN [b3 EXCEPT ![move.to.row][move.to.col] = Piece(piece.color, move.promotion)]
     ELSE [b3 EXCEPT ![move.to.row][move.to.col] = piece]

applyMoveToBoard(board, move) ==
  LET piece == board[move.from.row][move.from.col]
      b1 == [board EXCEPT ![move.from.row][move.from.col] = EMPTY]
      b2 == IF move.enPassant
            THEN [b1 EXCEPT ![move.from.row][move.to.col] = EMPTY]
            ELSE b1
      row == move.from.row
      b3 == IF move.castling = "-" THEN b2
            ELSE IF move.castling = "K"
                 THEN [b2 EXCEPT ![row][5] = b2[row][7], ![row][7] = EMPTY]
                 ELSE [b2 EXCEPT ![row][3] = b2[row][0], ![row][0] = EMPTY]
  IN IF move.promotion # "-"
     THEN [b3 EXCEPT ![move.to.row][move.to.col] = Piece(piece.color, move.promotion)]
     ELSE [b3 EXCEPT ![move.to.row][move.to.col] = piece]

\* ───────── Legal moves (engine.js 368-396) ─────────
\* variant of castlingPathSafe: the square the king crosses is not tested
castlingPathSafeDestinationOnly(state, color, move) ==
  LET row == move.from.row
  IN /\ ~isInCheck(state.board, color)
     /\ IF move.castling = "K"
        THEN ~isSquareAttacked(state.board, row, 6, opponent(color))
        ELSE ~isSquareAttacked(state.board, row, 2, opponent(color))

\* engine.js 374-385: the tests made for a castling move before it is simulated
castlingPathSafe(state, color, move) ==
  LET row == move.from.row
  IN /\ ~isInCheck(state.board, color)
     /\ IF move.castling = "K"
        THEN /\ ~isSquareAttacked(state.board, row, 5, opponent(color))
             /\ ~isSquareAttacked(state.board, row, 6, opponent(color))
        ELSE /\ ~isSquareAttacked(state.board, row, 3, opponent(color))
             /\ ~isSquareAttacked(state.board, row, 2, opponent(color))

\* variant of isLegal: the simulated board is not tested for check
isLegalIgnoringCheck(state, color, move) ==
  move.castling # "-" => castlingPathSafe(state, color, move)

isLegal(state, color, move) ==
  /\ (move.castling # "-" => castlingPathSafe(state, color, move))
  /\ ~isInCheck(applyMoveToBoard(state.board, move), color)

getLegalMoves(state, color) ==
  SelectSeq(getPseudoMoves(state, color), LAMBDA move : isLegal(state, color, move))

\* ───────── Notation (engine.js 531-570) ─────────
FileLetters == <<"a", "b", "c", "d", "e", "f", "g", "h">>
Digits == <<"0", "1", "2", "3", "4", "5", "6", "7", "8", "9">>
colLetter(c) == FileLetters[c + 1]
digit(n) == Digits[n + 1]

getMoveNotation(state, move, piece, captured) ==
  IF move.castling = "K" THEN <<"O", "-", "O">>
  ELSE IF move.castling = "Q" THEN <<"O", "-", "O", "-", "O">>
  ELSE
    LET samePieceMoves ==
          SelectSeq(getPseudoMoves(state, piece.color), LAMBDA m :
            /\ m.to = move.to
            /\ state.board[m.from.row][m.from.col] # EMPTY
            /\ state.board[m.from.row][m.from.col].type = piece.type
            /\ m.from # move.from)
        sameCol == \E i \in 1..Len(samePieceMoves) : samePieceMoves[i].from.col = move.from.col
        sameRow == \E i \in 1..Len(samePieceMoves) : samePieceMoves[i].from.row = move.from.row
        disambiguation ==
          IF Len(samePieceMoves) = 0 THEN <<>>
          ELSE IF ~sameCol THEN << colLetter(move.from.col) >>
          ELSE IF ~sameRow THEN << digit(8 - move.from.row) >>
          ELSE << colLetter(move.from.col), digit(8 - move.from.row) >>
        prefix == IF piece.type # PAWN THEN << piece.type >> \o disambiguation ELSE <<>>
        capt == IF captured # EMPTY \/ move.enPassant
                THEN (IF piece.type = PAWN THEN << colLetter(move.from.col) >> ELSE <<>>) \o <<"x">>
                ELSE <<>>
        dest == << colLetter(move.to.col), digit(8 - move.to.row) >>
        promo == IF move.promotion # "-" THEN << "=", move.promotion >> ELSE <<>>
    IN prefix \o capt \o dest \o promo

\* ───────── Draw detection (engine.js 574-597) ─────────
nonKingPieces(board, color) ==
  SelectSeq([i \in 1..64 |->
               [type |-> board[(i - 1) \div 8][(i - 1) % 8].type,
                color |-> board[(i - 1) \div 8][(i - 1) % 8].color,
                row |-> (i - 1) \div 8, col |-> (i - 1) % 8]],
            LAMBDA q : q.color = color /\ q.type # KING)

\* variant of isInsufficientMaterial: the squares of the two bishops are not compared
isInsufficientMaterialAnyBishops(board) ==
  LET wp == nonKingPieces(board, WHITE)
      bp == nonKingPieces(board, BLACK)
  IN \/ Len(wp) = 0 /\ Len(bp) = 0
     \/ Len(wp) = 0 /\ Len(bp) = 1 /\ bp[1].type \in {BISHOP, KNIGHT}
     \/ Len(bp) = 0 /\ Len(wp) = 1 /\ wp[1].type \in {BISHOP, KNIGHT}
     \/ Len(wp) = 1 /\ Len(bp) = 1 /\ wp[1].type = BISHOP /\ bp[1].type = BISHOP

isInsufficientMaterial(board) ==
  LET wp == nonKingPieces(board, WHITE)
      bp == nonKingPieces(board, BLACK)
  IN \/ Len(wp) = 0 /\ Len(bp) = 0
     \/ Len(wp) = 0 /\ Len(bp) = 1 /\ bp[1].type \in {BISHOP, KNIGHT}
     \/ Len(bp) = 0 /\ Len(wp) = 1 /\ wp[1].type \in {BISHOP, KNIGHT}
     \/ /\ Len(wp) = 1 /\ Len(bp) = 1 /\ wp[1].type = BISHOP /\ bp[1].type = BISHOP
        /\ (wp[1].row + wp[1].col) % 2 = (bp[1].row + bp[1].col) % 2

\* ───────── Make move (engine.js 428-527) ─────────
FiftyMoveLimit == 100

clearRight(castling, color, side) ==
  IF color = WHITE
  THEN (IF side = "K" THEN [castling EXCEPT !.wK = FALSE] ELSE [castling EXCEPT !.wQ = FALSE])
  ELSE (IF side = "K" THEN [castling EXCEPT !.bK = FALSE] ELSE [castling EXCEPT !.bQ = FALSE])

\* variant of updateCastling: a rook that moves keeps its right
updateCastlingRookMoveKept(castling, move, piece, captured) ==
  LET c1 == IF piece.type = KING
            THEN clearRight(clearRight(castling, piece.color, "K"), piece.color, "Q")
            ELSE castling
      c4 == IF captured.type = ROOK /\ move.to.col = 0 THEN clearRight(c1, captured.color, "Q") ELSE c1
  IN IF captured.type = ROOK /\ move.to.col = 7 THEN clearRight(c4, captured.color, "K") ELSE c4

\* castling rights after the move (engine.js 458-471)
updateCastling(castling, move, piece, captured) ==
  LET c1 == IF piece.type = KING
            THEN clearRight(clearRight(castling, piece.color, "K"), piece.color, "Q")
            ELSE castling
      c2 == IF piece.type = ROOK /\ move.from.col = 0 THEN clearRight(c1, piece.color, "Q") ELSE c1
      c3 == IF piece.type = ROOK /\ move.from.col = 7 THEN clearRight(c2, piece.color, "K") ELSE c2
      c4 == IF captured.type = ROOK /\ move.to.col = 0 THEN clearRight(c3, captured.color, "Q") ELSE c3
  IN IF captured.type = ROOK /\ move.to.col = 7 THEN clearRight(c4, captured.color, "K") ELSE c4

\* the value makeMove returns for an empty origin square (JavaScript null)
Null == [null |-> TRUE]

\* variant of invalidOrigin: a piece of the side not to move is refused as well
invalidOriginOrSide(state, move) ==
  \/ state.board[move.from.row][move.from.col] = EMPTY
  \/ state.board[move.from.row][move.from.col].color # state.turn

\* engine.js 430-431: no piece on the origin square
invalidOrigin(state, move) == state.board[move.from.row][move.from.col] = EMPTY

\* engine.js 498-510: check and mate marks appended to the notation
checkSuffix(noMoves, inCheck) ==
  IF noMoves THEN (IF inCheck THEN <<"#">> ELSE <<>>)
  ELSE IF inCheck THEN <<"+">> ELSE <<>>

\* variant of endOfGame: the material rule is not consulted
endOfGameNoMaterial(over, result, noMoves, inCheck, mover, board, halfMoveClock) ==
  LET over1 == IF noMoves THEN TRUE ELSE over
      result1 == IF noMoves
                 THEN (IF inCheck THEN (IF mover = WHITE THEN "1-0" ELSE "0-1")
                       ELSE "1/2-1/2")
                 ELSE result
      draw2 == FALSE
      over2 == over1 \/ draw2
      result2 == IF draw2 THEN "1/2-1/2" ELSE result1
      draw3 == ~over2 /\ halfMoveClock >= FiftyMoveLimit
  IN [gameOver |-> over2 \/ draw3,
      result |-> IF draw3 THEN "1/2-1/2" ELSE result2]

\* variant of endOfGame: a mate is credited to the mated side
endOfGameLoserWins(over, result, noMoves, inCheck, mover, board, halfMoveClock) ==
  LET over1 == IF noMoves THEN TRUE ELSE over
      result1 == IF noMoves
                 THEN (IF inCheck THEN (IF mover = WHITE THEN "0-1" ELSE "1-0")
                       ELSE "1/2-1/2")
                 ELSE result
      draw2 == ~over1 /\ isInsufficientMaterial(board)
      over2 == over1 \/ draw2
      result2 == IF draw2 THEN "1/2-1/2" ELSE result1
      draw3 == ~over2 /\ halfMoveClock >= FiftyMoveLimit
  IN [gameOver |-> over2 \/ draw3,
      result |-> IF draw3 THEN "1/2-1/2" ELSE result2]

\* variant of endOfGame: no legal move always counts as mate
endOfGameNoStalemate(over, result, noMoves, inCheck, mover, board, halfMoveClock) ==
  LET over1 == IF noMoves THEN TRUE ELSE over
      result1 == IF noMoves
                 THEN (IF mover = WHITE THEN "1-0" ELSE "0-1")
                 ELSE result
      draw2 == ~over1 /\ isInsufficientMaterial(board)
      over2 == over1 \/ draw2
      result2 == IF draw2 THEN "1/2-1/2" ELSE result1
      draw3 == ~over2 /\ halfMoveClock >= FiftyMoveLimit
  IN [gameOver |-> over2 \/ draw3,
      result |-> IF draw3 THEN "1/2-1/2" ELSE result2]

\* variant of endOfGame: the clock rule fires only above the limit
endOfGameLateClock(over, result, noMoves, inCheck, mover, board, halfMoveClock) ==
  LET over1 == IF noMoves THEN TRUE ELSE over
      result1 == IF noMoves
                 THEN (IF inCheck THEN (IF mover = WHITE THEN "1-0" ELSE "0-1")
                       ELSE "1/2-1/2")
                 ELSE result
      draw2 == ~over1 /\ isInsufficientMaterial(board)
      over2 == over1 \/ draw2
      result2 == IF draw2 THEN "1/2-1/2" ELSE result1
      draw3 == ~over2 /\ halfMoveClock > FiftyMoveLimit
  IN [gameOver |-> over2 \/ draw3,
      result |-> IF draw3 THEN "1/2-1/2" ELSE result2]

\* variant of endOfGame: the draw tests are made whether or not the game is over
endOfGameDrawsUnguarded(over, result, noMoves, inCheck, mover, board, halfMoveClock) ==
  LET over1 == IF noMoves THEN TRUE ELSE over
      result1 == IF noMoves
                 THEN (IF inCheck THEN (IF mover = WHITE THEN "1-0" ELSE "0-1")
                       ELSE "1/2-1/2")
                 ELSE result
      draw2 == isInsufficientMaterial(board)
      over2 == over1 \/ draw2
      result2 == IF draw2 THEN "1/2-1/2" ELSE result1
      draw3 == halfMoveClock >= FiftyMoveLimit
  IN [gameOver |-> over2 \/ draw3,
      result |-> IF draw3 THEN "1/2-1/2" ELSE result2]

\* engine.js 499-522: gameOver and result of the new state; over and result are the
\* values cloned from the state passed in, mover is the colour of the moved piece
endOfGame(over, result, noMoves, inCheck, mover, board, halfMoveClock) ==
  LET over1 == IF noMoves THEN TRUE ELSE over
      result1 == IF noMoves
                 THEN (IF inCheck THEN (IF mover = WHITE THEN "1-0" ELSE "0-1")
                       ELSE "1/2-1/2")
                 ELSE result
      draw2 == ~over1 /\ isInsufficientMaterial(board)
      over2 == over1 \/ draw2
      result2 == IF draw2 THEN "1/2-1/2" ELSE result1
      draw3 == ~over2 /\ halfMoveClock >= FiftyMoveLimit
  IN [gameOver |-> over2 \/ draw3,
      result |-> IF draw3 THEN "1/2-1/2" ELSE result2]

\* variant of nextEnPassant: any piece moving two rows leaves a target
nextEnPassantAnyPiece(piece, move) ==
  IF Abs(move.to.row - move.from.row) = 2
  THEN Sq((move.from.row + move.to.row) \div 2, move.from.col)
  ELSE NoSquare

\* engine.js 449-456: the en-passant target of the new state
nextEnPassant(piece, move) ==
  IF piece.type = PAWN /\ Abs(move.to.row - move.from.row) = 2
  THEN Sq((move.from.row + move.to.row) \div 2, move.from.col)
  ELSE NoSquare

\* variant of nextHalfMoveClock: a capture by a piece does not reset the clock
nextHalfMoveClockPawnOnly(halfMoveClock, piece, captured, move) ==
  IF piece.type = PAWN \/ move.enPassant THEN 0 ELSE halfMoveClock + 1

\* engine.js 473-478: the half-move clock of the new state
nextHalfMoveClock(halfMoveClock, piece, captured, move) ==
  IF piece.type = PAWN \/ captured # EMPTY \/ move.enPassant THEN 0 ELSE halfMoveClock + 1

\* Variant of nextCapturedPieces that files a captured piece under the colour of
\* the capturing side.
nextCapturedPiecesByCapturer(capturedPieces, piece, captured, move) ==
  LET capt1 == IF captured # EMPTY
               THEN [capturedPieces EXCEPT ![piece.color] = Append(@, captured.type)]
               ELSE capturedPieces
  IN IF move.enPassant
     THEN [capt1 EXCEPT ![piece.color] = Append(@, PAWN)]
     ELSE capt1

\* engine.js 433-447: the captured piece's type is pushed on the list of its own
\* colour; an en-passant capture pushes a pawn on the opponent's list.
nextCapturedPieces(capturedPieces, piece, captured, move) ==
  LET capt1 == IF captured # EMPTY
               THEN [capturedPieces EXCEPT ![captured.color] = Append(@, captured.type)]
               ELSE capturedPieces
  IN IF move.enPassant
     THEN [capt1 EXCEPT ![opponent(piece.color)] = Append(@, PAWN)]
     ELSE capt1

\* Variant of historyEntry that does not record the previous en-passant target.
historyEntryWithoutEnPassant(state, move, captured) ==
  [move |-> move, captured |-> captured,
   prevCastling |-> state.castling,
   prevEnPassant |-> NoSquare]

\* engine.js 486-492: the record pushed on moveHistory.
historyEntry(state, move, captured) ==
  [move |-> move, captured |-> captured,
   prevCastling |-> state.castling,
   prevEnPassant |-> state.enPassant]

makeMove(state, move) ==
  LET piece == state.board[move.from.row][move.from.col]
      captured == state.board[move.to.row][move.to.col]
      notation == getMoveNotation(state, move, piece, captured)
      capt2 == nextCapturedPieces(state.capturedPieces, piece, captured, move)
      board == applyMoveToBoard(state.board, move)
      enPassant == nextEnPassant(piece, move)
      castling == updateCastling(state.castling, move, piece, captured)
      halfMoveClock == nextHalfMoveClock(state.halfMoveClock, piece, captured, move)
      fullMoveNumber == IF piece.color = BLACK THEN state.fullMoveNumber + 1
                        ELSE state.fullMoveNumber
      turn == opponent(piece.color)
      moveHistory == Append(state.moveHistory, historyEntry(state, move, captured))
      moved == [state EXCEPT !.board = board, !.turn = turn, !.castling = castling,
                             !.enPassant = enPassant, !.halfMoveClock = halfMoveClock,
                             !.fullMoveNumber = fullMoveNumber,
                             !.moveHistory = moveHistory, !.capturedPieces = capt2]
      opponentMoves == getLegalMoves(moved, turn)
      inCheck == isInCheck(board, turn)
      noMoves == Len(opponentMoves) = 0
      end == endOfGame(state.gameOver, state.result, noMoves, inCheck, piece.color,
                       board, halfMoveClock)
  IN IF invalidOrigin(state, move) THEN Null
     ELSE [moved EXCEPT !.gameOver = end.gameOver,
                        !.result = end.result,
                        !.moveNotations =
                          Append(state.moveNotations, notation \o checkSuffix(noMoves, inCheck))]

\* ───────── FEN parsing (engine.js 38-95) ─────────
LowerLetters == <<"p", "n", "b", "r", "q", "k">>
UpperLetters == <<"P", "N", "B", "R", "Q", "K">>
isDigit(ch) == \E i \in 1..10 : Digits[i] = ch
digitVal(ch) == (CHOOSE i \in 1..10 : Digits[i] = ch) - 1
toUpperCase(ch) ==
  IF \E i \in 1..6 : LowerLetters[i] = ch
  THEN UpperLetters[CHOOSE i \in 1..6 : LowerLetters[i] = ch]
  ELSE ch
includes(str, ch) == \E i \in 1..Len(str) : str[i] = ch

\* String.prototype.split on a one-character separator
RECURSIVE split(_, _)
split(str, sep) ==
  IF ~includes(str, sep) THEN << str >>
  ELSE LET k == CHOOSE i \in 1..Len(str) :
                  str[i] = sep /\ \A j \in 1..(i - 1) : str[j] # sep
       IN << SubSeq(str, 1, k - 1) >> \o split(SubSeq(str, k + 1, Len(str)), sep)

\* parseInt on an unsigned decimal prefix; NaN when the text has no leading digit
NaN == -1
RECURSIVE parseDigits(_, _)
parseDigits(str, acc) ==
  IF str = <<>> \/ ~isDigit(Head(str)) THEN acc
  ELSE parseDigits(Tail(str), 10 * acc + digitVal(Head(str)))
parseInt(str) == IF str = <<>> \/ ~isDigit(Head(str)) THEN NaN ELSE parseDigits(str, 0)

\* one rank of the placement field as the array of its cells
RECURSIVE parseRow(_)
parseRow(str) ==
  IF str = <<>> THEN <<>>
  ELSE LET ch == Head(str)
       IN (IF isDigit(ch) THEN [i \in 1..digitVal(ch) |-> EMPTY]
           ELSE << Piece(IF ch = toUpperCase(ch) THEN WHITE ELSE BLACK, toUpperCase(ch)) >>)
          \o parseRow(Tail(str))

parseFEN(fen) ==
  LET parts == split(fen, " ")
      part(i) == IF i <= Len(parts) THEN parts[i] ELSE <<>>
      rows == split(parts[1], "/")
      turnStr == IF part(2) = <<>> THEN <<"w">> ELSE part(2)
      castleStr == IF part(3) = <<>> THEN <<"K", "Q", "k", "q">> ELSE part(3)
      ep == part(4)
      half == parseInt(part(5))
      full == parseInt(part(6))
  IN [board |-> [r \in 0..7 |-> LET row == parseRow(rows[r + 1])
                                IN [c \in 0..7 |-> row[c + 1]]],
      turn |-> IF turnStr = <<"w">> THEN WHITE ELSE BLACK,
      castling |-> [wK |-> includes(castleStr, "K"), wQ |-> includes(castleStr, "Q"),
                    bK |-> includes(castleStr, "k"), bQ |-> includes(castleStr, "q")],
      enPassant |-> IF ep # <<>> /\ ep # <<"-">>
                    THEN [col |-> (CHOOSE i \in 1..8 : FileLetters[i] = ep[1]) - 1,
                          row |-> 8 - parseInt(<< ep[2] >>)]
                    ELSE NoSquare,
      halfMoveClock |-> IF half = NaN \/ half = 0 THEN 0 ELSE half,
      fullMoveNumber |-> IF full = NaN \/ full = 0 THEN 1 ELSE full]

stateFromFEN(fen) ==
  LET parsed == parseFEN(fen)
  IN [board |-> parsed.board, turn |-> parsed.turn, castling |-> parsed.castling,
      enPassant |-> parsed.enPassant, halfMoveClock |-> parsed.halfMoveClock,
      fullMoveNumber |-> parsed.fullMoveNumber,
      moveHistory |-> <<>>, capturedPieces |-> [w |-> <<>>, b |-> <<>>],
      moveNotations |-> <<>>, gameOver |-> FALSE, result |-> "null"]

\* ───────── FEN serialisation (engine.js 97-129) ─────────
\* decimal text of a natural number (number-to-string conversion of +=)
RECURSIVE numToStr(_)
numToStr(n) == IF n < 10 THEN << digit(n) >> ELSE numToStr(n \div 10) \o << digit(n % 10) >>

toLowerCase(ch) ==
  IF \E i \in 1..6 : UpperLetters[i] = ch
  THEN LowerLetters[CHOOSE i \in 1..6 : UpperLetters[i] = ch]
  ELSE ch

\* engine.js 100-108: one rank from column c on, with `empty` empty cells pending
RECURSIVE fenRow(_, _, _)
fenRow(row, c, empty) ==
  IF c = 8 THEN (IF empty > 0 THEN numToStr(empty) ELSE <<>>)
  ELSE IF row[c] = EMPTY THEN fenRow(row, c + 1, empty + 1)
  ELSE (IF empty > 0 THEN numToStr(empty) ELSE <<>>) \o
       << IF row[c].color = WHITE THEN row[c].type ELSE toLowerCase(row[c].type) >> \o
       fenRow(row, c + 1, 0)

\* engine.js 99-110: the placement field
fenPlacement(board) ==
  Concat([i \in 1..8 |-> fenRow(board[i - 1], 0, 0) \o (IF i - 1 < 7 THEN <<"/">> ELSE <<>>)])

\* engine.js 114-119: the castling field
fenCastling(castling) ==
  LET castle == (IF castling.wK THEN <<"K">> ELSE <<>>) \o (IF castling.wQ THEN <<"Q">> ELSE <<>>) \o
                (IF castling.bK THEN <<"k">> ELSE <<>>) \o (IF castling.bQ THEN <<"q">> ELSE <<>>)
  IN IF castle = <<>> THEN <<"-">> ELSE castle

\* variant of fenEnPassant: the rank digit is the row index plus one
fenEnPassantRowIndex(enPassant) ==
  IF enPassant # NoSquare
  THEN << colLetter(enPassant.col) >> \o numToStr(enPassant.row + 1)
  ELSE <<"-">>

\* engine.js 121-125: the en-passant field
fenEnPassant(enPassant) ==
  IF enPassant # NoSquare
  THEN << colLetter(enPassant.col) >> \o numToStr(8 - enPassant.row)
  ELSE <<"-">>

boardToFEN(state) ==
  fenPlacement(state.board) \o <<" ", state.turn>> \o <<" ">> \o fenCastling(state.castling)
    \o <<" ">> \o fenEnPassant(state.enPassant)
    \o <<" ">> \o numToStr(state.halfMoveClock) \o <<" ">> \o numToStr(state.fullMoveNumber)

\* ───────── Initial state (engine.js 20-34) ─────────
\* rnbqkbnr/pppppppp/8/8/8/8/PPPPPPPP/RNBQKBNR
StartPlacement ==
  <<"r", "n", "b", "q", "k", "b", "n", "r", "/", "p", "p", "p", "p", "p", "p", "p", "p", "/", "8", "/", "8", "/", "8", "/", "8", "/", "P", "P", "P", "P", "P", "P", "P", "P", "/", "R", "N", "B", "Q", "K", "B", "N", "R">>

createInitialState ==
  [board |-> parseFEN(StartPlacement).board, turn |-> WHITE,
   castling |-> [wK |-> TRUE, wQ |-> TRUE, bK |-> TRUE, bQ |-> TRUE],
   enPassant |-> NoSquare, halfMoveClock |-> 0, fullMoveNumber |-> 1,
   moveHistory |-> <<>>, capturedPieces |-> [w |-> <<>>, b |-> <<>>],
   moveNotations |-> <<>>, gameOver |-> FALSE, result |-> "null"]

\* ───────── Positions loaded with stateFromFEN (puzzles.js 11, and constructed) ─────────
\* 6k1/5ppp/8/8/8/8/1Q6/K7 w - - 0 1  -- puzzles.js puzzle 1: White mates in one
FenMateInOne ==
  <<"6", "k", "1", "/", "5", "p", "p", "p", "/", "8", "/", "8", "/", "8", "/", "8", "/", "1", "Q", "6", "/", "K", "7", " ", "w", " ", "-", " ", "-", " ", "0", " ", "1">>

\* 8/8/8/8/k3p2R/8/3P4/4K3 w - - 0 1  -- d2-d4 offers an en-passant capture that would open the fourth rank
FenRankPin ==
  <<"8", "/", "8", "/", "8", "/", "8", "/", "k", "3", "p", "2", "R", "/", "8", "/", "3", "P", "4", "/", "4", "K", "3", " ", "w", " ", "-", " ", "-", " ", "0", " ", "1">>

\* r3k2r/8/8/8/8/8/8/R3K2R w KQkq - 0 1  -- all four castling moves available
FenCastle ==
  <<"r", "3", "k", "2", "r", "/", "8", "/", "8", "/", "8", "/", "8", "/", "8", "/", "8", "/", "R", "3", "K", "2", "R", " ", "w", " ", "K", "Q", "k", "q", " ", "-", " ", "0", " ", "1">>

\* r3k2r/8/8/8/8/8/6p1/R3K2R w KQkq - 0 1  -- g2 pawn attacks f1, b-file open
FenCastleAttacked ==
  <<"r", "3", "k", "2", "r", "/", "8", "/", "8", "/", "8", "/", "8", "/", "8", "/", "6", "p", "1", "/", "R", "3", "K", "2", "R", " ", "w", " ", "K", "Q", "k", "q", " ", "-", " ", "0", " ", "1">>

\* 5b2/8/8/3k4/8/2n5/1B6/K7 w - - 0 1  -- Bxc3 leaves bishops on squares of equal parity
FenBishopsSame ==
  <<"5", "b", "2", "/", "8", "/", "8", "/", "3", "k", "4", "/", "8", "/", "2", "n", "5", "/", "1", "B", "6", "/", "K", "7", " ", "w", " ", "-", " ", "-", " ", "0", " ", "1">>

\* 4b3/8/8/3k4/8/2n5/1B6/K7 w - - 0 1  -- Bxc3 leaves bishops on squares of opposite parity
FenBishopsOpposite ==
  <<"4", "b", "3", "/", "8", "/", "8", "/", "3", "k", "4", "/", "8", "/", "2", "n", "5", "/", "1", "B", "6", "/", "K", "7", " ", "w", " ", "-", " ", "-", " ", "0", " ", "1">>

\* 8/8/8/3k4/4P3/8/1N6/7K b - - 0 1  -- Kxe4 leaves K v K+N
FenLoneKnight ==
  <<"8", "/", "8", "/", "8", "/", "3", "k", "4", "/", "4", "P", "3", "/", "8", "/", "1", "N", "6", "/", "7", "K", " ", "b", " ", "-", " ", "-", " ", "0", " ", "1">>

\* 8/8/8/3k4/4P3/8/1B6/7K b - - 0 1  -- Kxe4 leaves K v K+B
FenLoneBishop ==
  <<"8", "/", "8", "/", "8", "/", "3", "k", "4", "/", "4", "P", "3", "/", "8", "/", "1", "B", "6", "/", "7", "K", " ", "b", " ", "-", " ", "-", " ", "0", " ", "1">>

\* 8/8/8/3k4/8/8/1p6/K7 w - - 0 1  -- Kxb2 leaves K v K
FenBareKings ==
  <<"8", "/", "8", "/", "8", "/", "3", "k", "4", "/", "8", "/", "8", "/", "1", "p", "6", "/", "K", "7", " ", "w", " ", "-", " ", "-", " ", "0", " ", "1">>

\* 1n5k/P7/8/8/8/8/7p/K7 w - - 0 1  -- pawns one step from promotion, by push and by capture
FenPromotion ==
  <<"1", "n", "5", "k", "/", "P", "7", "/", "8", "/", "8", "/", "8", "/", "8", "/", "7", "p", "/", "K", "7", " ", "w", " ", "-", " ", "-", " ", "0", " ", "1">>

\* 7k/8/8/8/8/8/8/K4Q2 w - - 0 1  -- White can stalemate with Qf7
FenStalemate ==
  <<"7", "k", "/", "8", "/", "8", "/", "8", "/", "8", "/", "8", "/", "8", "/", "K", "4", "Q", "2", " ", "w", " ", "-", " ", "-", " ", "0", " ", "1">>

\* 7k/8/6K1/8/8/8/8/R7 w - - 98 60  -- two plies short of the 50-move limit, rook mates available
FenFiftyMove ==
  <<"7", "k", "/", "8", "/", "6", "K", "1", "/", "8", "/", "8", "/", "8", "/", "8", "/", "R", "7", " ", "w", " ", "-", " ", "-", " ", "9", "8", " ", "6", "0">>

\* 7k/8/6K1/8/8/8/8/R7 w - - 99 60  -- one ply short of the 50-move limit, Ra8 mates
FenFiftyMoveMate ==
  <<"7", "k", "/", "8", "/", "6", "K", "1", "/", "8", "/", "8", "/", "8", "/", "8", "/", "R", "7", " ", "w", " ", "-", " ", "-", " ", "9", "9", " ", "6", "0">>

\* r3k3/8/8/r7/R7/8/8/R3K3 w Qq - 0 1  -- a second rook of either colour on the a-file, off its home rank
FenRookFile ==
  <<"r", "3", "k", "3", "/", "8", "/", "8", "/", "r", "7", "/", "R", "7", "/", "8", "/", "8", "/", "R", "3", "K", "3", " ", "w", " ", "Q", "q", " ", "-", " ", "0", " ", "1">>

\* positions explored for MaxShortPly plies
ShortFens ==
  {FenMateInOne, FenRankPin, FenCastle, FenCastleAttacked, FenBishopsSame,
   FenBishopsOpposite, FenLoneKnight, FenLoneBishop, FenBareKings, FenPromotion,
   FenRookFile}
\* positions with one piece besides the kings, explored for MaxPly plies
LongFens == {FenStalemate, FenFiftyMove, FenFiftyMoveMate}

\* 7k/5K1p/6P1/8/8/8/8/8 w - - 0 1  -- g6-g7 mates; kings and pawns only
FenPawnMate ==
  <<"7", "k", "/", "5", "K", "1", "p", "/", "6", "P", "1", "/", "8", "/", "8", "/", "8", "/", "8", "/", "8", " ", "w", " ", "-", " ", "-", " ", "0", " ", "1">>

\* 8/8/8/8/8/1k6/p7/K7 b - - 0 1  -- Kb3-a3 and Kb3-c2 stalemate White
FenCornered ==
  <<"8", "/", "8", "/", "8", "/", "8", "/", "8", "/", "1", "k", "6", "/", "p", "7", "/", "K", "7", " ", "b", " ", "-", " ", "-", " ", "0", " ", "1">>

\* 8/8/8/8/8/2k5/8/K7 w - - 0 1  -- two kings: the first move played ends the game as a draw
FenKings ==
  <<"8", "/", "8", "/", "8", "/", "8", "/", "8", "/", "2", "k", "5", "/", "8", "/", "K", "7", " ", "w", " ", "-", " ", "-", " ", "0", " ", "1">>

\* 8/8/8/3p4/4P3/8/k7/7K w - - 0 1  -- either pawn may capture the other or pass it
FenPawnTension ==
  <<"8", "/", "8", "/", "8", "/", "3", "p", "4", "/", "4", "P", "3", "/", "8", "/", "k", "7", "/", "7", "K", " ", "w", " ", "-", " ", "-", " ", "0", " ", "1">>

\* positions given to the search: few moves for either side
SearchFens == {FenPawnMate, FenCornered, FenKings, FenPawnTension, FenFiftyMoveMate}

\* ───────── Positions reached by play from the standard start ─────────
\* the legal move of the side to move with the given origin and destination
legalMove(s, from, to) ==
  LET legal == getLegalMoves(s, s.turn)
  IN legal[CHOOSE i \in 1..Len(legal) : legal[i].from = from /\ legal[i].to = to]

RECURSIVE playLine(_, _)
playLine(s, line) ==
  IF line = <<>> THEN s
  ELSE playLine(makeMove(s, legalMove(s, line[1][1], line[1][2])), Tail(line))

\* 1.e4 a6 2.e5 d5: the pushed pawn lands beside the e5 pawn
LineWhiteEnPassant ==
  << <<Sq(6,4), Sq(4,4)>>, <<Sq(1,0), Sq(2,0)>>, <<Sq(4,4), Sq(3,4)>>, <<Sq(1,3), Sq(3,3)>> >>
\* 1.e4 a6 2.e5 a5 3.c4 a4 4.c5 d5: the pushed pawn lands between the c5 and e5 pawns
LineTwoCapturers ==
  << <<Sq(6,4), Sq(4,4)>>, <<Sq(1,0), Sq(2,0)>>, <<Sq(4,4), Sq(3,4)>>, <<Sq(2,0), Sq(3,0)>>,
     <<Sq(6,2), Sq(4,2)>>, <<Sq(3,0), Sq(4,0)>>, <<Sq(4,2), Sq(3,2)>>, <<Sq(1,3), Sq(3,3)>> >>
\* 1.a3 e5 2.a4 e4 3.d4: the pushed pawn lands beside the e4 pawn
LineBlackEnPassant ==
  << <<Sq(6,0), Sq(5,0)>>, <<Sq(1,4), Sq(3,4)>>, <<Sq(5,0), Sq(4,0)>>, <<Sq(3,4), Sq(4,4)>>,
     <<Sq(6,3), Sq(4,3)>> >>
\* 1.e4 e5 2.d4 exd4 3.e5 Qe7 4.a3 f5: the e5 pawn is pinned on the e-file
LinePinnedEnPassant ==
  << <<Sq(6,4), Sq(4,4)>>, <<Sq(1,4), Sq(3,4)>>, <<Sq(6,3), Sq(4,3)>>, <<Sq(3,4), Sq(4,3)>>,
     <<Sq(4,4), Sq(3,4)>>, <<Sq(0,3), Sq(1,4)>>, <<Sq(6,0), Sq(5,0)>>, <<Sq(1,5), Sq(3,5)>> >>
\* 1.e4 e5 2.Nf3 Nc6 3.Bc4 Bc5: White may castle king-side
LineCastle ==
  << <<Sq(6,4), Sq(4,4)>>, <<Sq(1,4), Sq(3,4)>>, <<Sq(7,6), Sq(5,5)>>, <<Sq(0,1), Sq(2,2)>>,
     <<Sq(7,5), Sq(4,2)>>, <<Sq(0,5), Sq(3,2)>> >>

\* 1.h4 a5 2.Rh3: White has lost the king-side right
LineRookLift ==
  << <<Sq(6,7), Sq(4,7)>>, <<Sq(1,0), Sq(3,0)>>, <<Sq(7,7), Sq(5,7)>> >>

\* 1.h4 g5 2.hxg5 h6 3.gxh6 Bg7 4.hxg7 Nf6: the g7 pawn may promote on g8 or h8
LinePromotion ==
  << <<Sq(6,7), Sq(4,7)>>, <<Sq(1,6), Sq(3,6)>>, <<Sq(4,7), Sq(3,6)>>, <<Sq(1,7), Sq(2,7)>>,
     <<Sq(3,6), Sq(2,7)>>, <<Sq(0,5), Sq(1,6)>>, <<Sq(2,7), Sq(1,6)>>, <<Sq(0,6), Sq(2,5)>> >>

OpeningLines ==
  {<<>>, LineWhiteEnPassant, LineTwoCapturers, LineBlackEnPassant, LinePinnedEnPassant,
   LineCastle, LineRookLift, LinePromotion}

\* ───────── Search (part_000 10-167) ─────────
PIECE_VALUE(type) ==
  CASE type = PAWN -> 100 [] type = KNIGHT -> 320 [] type = BISHOP -> 330
    [] type = ROOK -> 500 [] type = QUEEN -> 900 [] type = KING -> 20000

\* piece-square tables from white's perspective; rows and columns are 1-based here
PST(type) ==
  CASE type = PAWN ->
        << <<0, 0, 0, 0, 0, 0, 0, 0>>,
           <<50, 50, 50, 50, 50, 50, 50, 50>>,
           <<10, 10, 20, 30, 30, 20, 10, 10>>,
           <<5, 5, 10, 25, 25, 10, 5, 5>>,
           <<0, 0, 0, 20, 20, 0, 0, 0>>,
           <<5, -5, -10, 0, 0, -10, -5, 5>>,
           <<5, 10, 10, -20, -20, 10, 10, 5>>,
           <<0, 0, 0, 0, 0, 0, 0, 0>> >>
    [] type = KNIGHT ->
        << <<-50, -40, -30, -30, -30, -30, -40, -50>>,
           <<-40, -20, 0, 0, 0, 0, -20, -40>>,
           <<-30, 0, 10, 15, 15, 10, 0, -30>>,
           <<-30, 5, 15, 20, 20, 15, 5, -30>>,
           <<-30, 0, 15, 20, 20, 15, 0, -30>>,
           <<-30, 5, 10, 15, 15, 10, 5, -30>>,
           <<-40, -20, 0, 5, 5, 0, -20, -40>>,
           <<-50, -40, -30, -30, -30, -30, -40, -50>> >>
    [] type = BISHOP ->
        << <<-20, -10, -10, -10, -10, -10, -10, -20>>,
           <<-10, 0, 0, 0, 0, 0, 0, -10>>,
           <<-10, 0, 10, 10, 10, 10, 0, -10>>,
           <<-10, 5, 5, 10, 10, 5, 5, -10>>,
           <<-10, 0, 5, 10, 10, 5, 0, -10>>,
           <<-10, 10, 5, 10, 10, 5, 10, -10>>,
           <<-10, 5, 0, 0, 0, 0, 5, -10>>,
           <<-20, -10, -10, -10, -10, -10, -10, -20>> >>
    [] type = ROOK ->
        << <<0, 0, 0, 0, 0, 0, 0, 0>>,
           <<5, 10, 10, 10, 10, 10, 10, 5>>,
           <<-5, 0, 0, 0, 0, 0, 0, -5>>,
           <<-5, 0, 0, 0, 0, 0, 0, -5>>,
           <<-5, 0, 0, 0, 0, 0, 0, -5>>,
           <<-5, 0, 0, 0, 0, 0, 0, -5>>,
           <<-5, 0, 0, 0, 0, 0, 0, -5>>,
           <<0, 0, 0, 5, 5, 0, 0, 0>> >>
    [] type = QUEEN ->
        << <<-20, -10, -10, -5, -5, -10, -10, -20>>,
           <<-10, 0, 0, 0, 0, 0, 0, -10>>,
           <<-10, 0, 5, 5, 5, 5, 0, -10>>,
           <<-5, 0, 5, 5, 5, 5, 0, -5>>,
           <<0, 0, 5, 5, 5, 5, 0, -5>>,
           <<-10, 5, 5, 5, 5, 5, 0, -10>>,
           <<-10, 0, 5, 0, 0, 0, 0, -10>>,
           <<-20, -10, -10, -5, -5, -10, -10, -20>> >>
    [] type = KING ->
        << <<-30, -40, -40, -50, -50, -40, -40, -30>>,
           <<-30, -40, -40, -50, -50, -40, -40, -30>>,
           <<-30, -40, -40, -50, -50, -40, -40, -30>>,
           <<-30, -40, -40, -50, -50, -40, -40, -30>>,
           <<-20, -30, -30, -40, -40, -30, -30, -20>>,
           <<-10, -20, -20, -20, -20, -20, -20, -10>>,
           <<20, 20, 0, 0, 0, 0, 20, 20>>,
           <<20, 30, 10, 0, 0, 10, 30, 20>> >>

\* variant of cellScore: Black reads the tables by the same row as White
cellScoreSameRow(board, r, c) ==
  LET p == board[r][c]
      val == PIECE_VALUE(p.type)
      pstRow == r
      pst == PST(p.type)[pstRow + 1][c + 1]
  IN IF p = EMPTY THEN 0
     ELSE IF p.color = WHITE THEN val + pst ELSE 0 - (val + pst)

\* part_000 87-97: the signed contribution of the cell (r, c)
cellScore(board, r, c) ==
  LET p == board[r][c]
      val == PIECE_VALUE(p.type)
      pstRow == IF p.color = WHITE THEN r ELSE 7 - r
      pst == PST(p.type)[pstRow + 1][c + 1]
  IN IF p = EMPTY THEN 0
     ELSE IF p.color = WHITE THEN val + pst ELSE 0 - (val + pst)

RECURSIVE sumCells(_, _)
sumCells(board, i) ==
  IF i = 64 THEN 0 ELSE cellScore(board, i \div 8, i % 8) + sumCells(board, i + 1)

evaluate(state) == sumCells(state.board, 0)

\* part_000 104-111: the ordering score of one move; every piece value is a
\* multiple of ten, so the division is exact
orderScore(state, a) ==
  LET captA == state.board[a.to.row][a.to.col]
      mover == state.board[a.from.row][a.from.col]
  IN (IF captA # EMPTY THEN PIECE_VALUE(captA.type) - PIECE_VALUE(mover.type) \div 10 ELSE 0)
     + (IF a.promotion # "-" THEN PIECE_VALUE(a.promotion) ELSE 0)

\* insertion of a move behind every move whose score is not smaller (stable sort)
RECURSIVE insertOrdered(_, _, _)
insertOrdered(state, sorted, a) ==
  IF sorted = <<>> THEN << a >>
  ELSE IF orderScore(state, Head(sorted)) >= orderScore(state, a)
       THEN << Head(sorted) >> \o insertOrdered(state, Tail(sorted), a)
       ELSE << a >> \o sorted

RECURSIVE sortFrom(_, _, _, _)
sortFrom(state, moves, i, sorted) ==
  IF i > Len(moves) THEN sorted
  ELSE sortFrom(state, moves, i + 1, insertOrdered(state, sorted, moves[i]))

\* part_000 102-113: moves sorted by descending score, equal scores keeping their order
orderMoves(state, moves) == sortFrom(state, moves, 1, <<>>)

Infinity == 1000000
MateScore == 99999

\* part_000 121-128: the score of a node without legal moves
noMoveScore(state, depth, maximizing) ==
  IF isInCheck(state.board, state.turn)
  THEN (IF maximizing THEN (0 - MateScore) + (4 - depth) ELSE MateScore - (4 - depth))
  ELSE 0

Max(a, b) == IF a >= b THEN a ELSE b
Min(a, b) == IF a <= b THEN a ELSE b

\* variant of cutoff: the comparison turned round
cutoffInverted(alpha, beta) == alpha <= beta

\* part_000 142 and 155: the pruning break
cutoff(alpha, beta) == beta <= alpha

\* variant of atLeaf: a finished game is searched like any other
atLeafDepthOnly(state, depth) == depth = 0

\* part_000 116: the node is not expanded
atLeaf(state, depth) == depth = 0 \/ state.gameOver

\* A search result carries, besides score and move, the number of moves that the
\* break statements left unvisited below the node (skipped); no code reads it.
leaf(score) == [score |-> score, move |-> Null, skipped |-> 0]

RECURSIVE minimax(_, _, _, _, _)
RECURSIVE loop(_, _, _, _, _, _, _)
RECURSIVE loopOn(_, _, _, _, _, _, _)

\* part_000 138-142: the rest of a pass of the maximizing loop, given the result
\* of the recursive call; acc holds alpha, beta, maxEval (best), bestMove and
\* whether the loop has been left by break
\* variant of maxUpdate: the best move of the recursive call is kept in place of
\* the move that led to it
maxUpdateKeepsReply(acc, move, result) ==
  [alpha |-> Max(acc.alpha, result.score), beta |-> acc.beta,
   best |-> IF result.score > acc.best THEN result.score ELSE acc.best,
   bestMove |-> IF result.score > acc.best THEN result.move ELSE acc.bestMove,
   broken |-> cutoff(Max(acc.alpha, result.score), acc.beta),
   skipped |-> acc.skipped + result.skipped]

\* variant of maxUpdate: a move with a score equal to maxEval replaces the incumbent
maxUpdateTakesTies(acc, move, result) ==
  [alpha |-> Max(acc.alpha, result.score), beta |-> acc.beta,
   best |-> IF result.score >= acc.best THEN result.score ELSE acc.best,
   bestMove |-> IF result.score >= acc.best THEN move ELSE acc.bestMove,
   broken |-> cutoff(Max(acc.alpha, result.score), acc.beta),
   skipped |-> acc.skipped + result.skipped]

maxUpdate(acc, move, result) ==
  [alpha |-> Max(acc.alpha, result.score), beta |-> acc.beta,
   best |-> IF result.score > acc.best THEN result.score ELSE acc.best,
   bestMove |-> IF result.score > acc.best THEN move ELSE acc.bestMove,
   broken |-> cutoff(Max(acc.alpha, result.score), acc.beta),
   skipped |-> acc.skipped + result.skipped]

\* part_000 136-137: if (!newState) continue; then the recursive call
maxVisit(depth, acc, move, newState) ==
  IF newState = Null THEN acc
  ELSE maxUpdate(acc, move, minimax(newState, depth - 1, acc.alpha, acc.beta, FALSE))

\* part_000 135-142: one pass of the maximizing loop
maxStep(state, depth, acc, move) ==
  IF acc.broken THEN acc ELSE maxVisit(depth, acc, move, makeMove(state, move))

\* part_000 151-155: the rest of a pass of the minimizing loop; best is minEval
minUpdate(acc, move, result) ==
  [alpha |-> acc.alpha, beta |-> Min(acc.beta, result.score),
   best |-> IF result.score < acc.best THEN result.score ELSE acc.best,
   bestMove |-> IF result.score < acc.best THEN move ELSE acc.bestMove,
   broken |-> cutoff(acc.alpha, Min(acc.beta, result.score)),
   skipped |-> acc.skipped + result.skipped]

\* part_000 149-150
minVisit(depth, acc, move, newState) ==
  IF newState = Null THEN acc
  ELSE minUpdate(acc, move, minimax(newState, depth - 1, acc.alpha, acc.beta, TRUE))

\* part_000 148-155: one pass of the minimizing loop
minStep(state, depth, acc, move) ==
  IF acc.broken THEN acc ELSE minVisit(depth, acc, move, makeMove(state, move))

\* for (const move of moves): the passes for moves[lo..hi] in order, from acc
loop(state, depth, maximizing, moves, lo, hi, acc) ==
  IF lo = hi
  THEN (IF maximizing THEN maxStep(state, depth, acc, moves[lo])
                      ELSE minStep(state, depth, acc, moves[lo]))
  ELSE loopOn(state, depth, maximizing, moves, (lo + hi) \div 2, hi,
              loop(state, depth, maximizing, moves, lo, (lo + hi) \div 2, acc))

\* the passes for moves[mid+1..hi] after those up to mid have given left
loopOn(state, depth, maximizing, moves, mid, hi, left) ==
  IF left.broken THEN [left EXCEPT !.skipped = @ + (hi - mid)]
  ELSE loop(state, depth, maximizing, moves, mid + 1, hi, left)

\* part_000 158, 160: what the loop leaves is returned
loopResult(end) == [score |-> end.best, move |-> end.bestMove, skipped |-> end.skipped]

\* part_000 120-160: the node is expanded over its ordered moves
expand(state, depth, alpha, beta, maximizing, moves) ==
  IF Len(moves) = 0
  THEN leaf(noMoveScore(state, depth, maximizing))
  ELSE loopResult(loop(state, depth, maximizing, moves, 1, Len(moves),
                       [alpha |-> alpha, beta |-> beta,
                        best |-> IF maximizing THEN 0 - Infinity ELSE Infinity,
                        bestMove |-> moves[1], broken |-> FALSE, skipped |-> 0]))

minimax(state, depth, alpha, beta, maximizing) ==
  IF atLeaf(state, depth) THEN leaf(evaluate(state))
  ELSE expand(state, depth, alpha, beta, maximizing,
              orderMoves(state, getLegalMoves(state, state.turn)))

\* part_000 163-167
getBestMove(state, depth) ==
  minimax(state, depth, 0 - Infinity, Infinity, state.turn = WHITE).move

\* the largest (smallest) of a non-empty set of scores
best(scores, maximizing) ==
  IF maximizing THEN CHOOSE x \in scores : \A y \in scores : y <= x
  ELSE CHOOSE x \in scores : \A y \in scores : x <= y

\* part_000 115-161 with the two break statements removed: only the score is kept
RECURSIVE fullScore(_, _, _)
fullExpand(state, depth, maximizing, moves) ==
  IF Len(moves) = 0 THEN noMoveScore(state, depth, maximizing)
  ELSE best({ fullScore(makeMove(state, moves[i]), depth - 1, ~maximizing) : i \in 1..Len(moves) },
            maximizing)

fullScore(state, depth, maximizing) ==
  IF atLeaf(state, depth) THEN evaluate(state)
  ELSE fullExpand(state, depth, maximizing, orderMoves(state, getLegalMoves(state, state.turn)))

\* ───────── Object identities (engine.js 137-158, 368-396, 428-527) ─────────
\* Every array and object a GameState is made of is named by the place of its
\* allocation: the path of calls that led to it, its kind and an index. Piece
\* objects, move objects and history entries are never assigned to after their
\* creation and are not named, except the entries, which clones share.
Id(path, kind, index) == [path |-> path, kind |-> kind, index |-> index]
NoId == Id(<<>>, "null", 0)

\* the objects of a state built from scratch (engine.js 20-34, 85-95)
allocState(path, state) ==
  [self |-> Id(path, "state", 0),
   board |-> Id(path, "board", 0),
   rows |-> [r \in 0..7 |-> Id(path, "row", r)],
   castling |-> Id(path, "castling", 0),
   enPassant |-> IF state.enPassant # NoSquare THEN Id(path, "enPassant", 0) ELSE NoId,
   moveHistory |-> Id(path, "moveHistory", 0),
   entries |-> [k \in 1..Len(state.moveHistory) |-> Id(path, "entry", k)],
   capturedPieces |-> Id(path, "capturedPieces", 0),
   capturedW |-> Id(path, "capturedPieces.w", 0),
   capturedB |-> Id(path, "capturedPieces.b", 0),
   moveNotations |-> Id(path, "moveNotations", 0)]

\* variant of cloneState: the outer board array is copied, its row arrays are shared
cloneStateSharedRows(ids, path) ==
  [self |-> Id(path, "state", 0),
   board |-> Id(path, "board", 0),
   rows |-> ids.rows,
   castling |-> Id(path, "castling", 0),
   enPassant |-> IF ids.enPassant # NoId THEN Id(path, "enPassant", 0) ELSE NoId,
   moveHistory |-> Id(path, "moveHistory", 0),
   entries |-> ids.entries,
   capturedPieces |-> Id(path, "capturedPieces", 0),
   capturedW |-> Id(path, "capturedPieces.w", 0),
   capturedB |-> Id(path, "capturedPieces.b", 0),
   moveNotations |-> Id(path, "moveNotations", 0)]

\* engine.js 137-158: the objects of the copy; [...state.moveHistory] copies the
\* array and shares its entries
cloneState(ids, path) ==
  [self |-> Id(path, "state", 0),
   board |-> Id(path, "board", 0),
   rows |-> [r \in 0..7 |-> Id(path, "row", r)],
   castling |-> Id(path, "castling", 0),
   enPassant |-> IF ids.enPassant # NoId THEN Id(path, "enPassant", 0) ELSE NoId,
   moveHistory |-> Id(path, "moveHistory", 0),
   entries |-> ids.entries,
   capturedPieces |-> Id(path, "capturedPieces", 0),
   capturedW |-> Id(path, "capturedPieces.w", 0),
   capturedB |-> Id(path, "capturedPieces.b", 0),
   moveNotations |-> Id(path, "moveNotations", 0)]

\* every named object reachable from a state
reach(ids) ==
  {ids.self, ids.board, ids.castling, ids.moveHistory, ids.capturedPieces,
   ids.capturedW, ids.capturedB, ids.moveNotations}
    \cup { ids.rows[r] : r \in 0..7 }
    \cup { ids.entries[k] : k \in 1..Len(ids.entries) }
    \cup (IF ids.enPassant # NoId THEN {ids.enPassant} ELSE {})

\* engine.js 368-396: getLegalMoves assigns to the two arrays it builds and to
\* the rows of the board copies it simulates on (one name stands for all copies)
getLegalMovesWritten(path) ==
  {Id(path, "pseudoMoves", 0), Id(path, "legalMoves", 0), Id(path, "newBoard", 0)}

\* engine.js 428-527: the objects makeMove assigns to, and the objects of the
\* state it returns; ids are the objects of the state passed in
makeMoveObjects(ids, state, move, path) ==
  LET newState == cloneState(ids, path)
      piece == state.board[move.from.row][move.from.col]
      captured == state.board[move.to.row][move.to.col]
      capturedOf(color) == IF color = WHITE THEN newState.capturedW ELSE newState.capturedB
      rightsTouched ==
        \/ piece.type = KING
        \/ piece.type = ROOK /\ move.from.col \in {0, 7}
        \/ captured.type = ROOK /\ move.to.col \in {0, 7}
      written ==
        (IF captured # EMPTY THEN {capturedOf(captured.color)} ELSE {})
          \cup (IF move.enPassant THEN {capturedOf(opponent(piece.color))} ELSE {})
          \cup {newState.rows[move.from.row], newState.rows[move.to.row]}
          \cup {newState.self}
          \cup (IF rightsTouched THEN {newState.castling} ELSE {})
          \cup {newState.moveHistory}
          \cup getLegalMovesWritten(path)
          \cup {newState.moveNotations}
      returned ==
        [newState EXCEPT
           !.enPassant = IF nextEnPassant(piece, move) # NoSquare
                         THEN Id(path, "enPassant", 1) ELSE NoId,
           !.entries = Append(@, Id(path, "entry", Len(@) + 1))]
  IN IF invalidOrigin(state, move)
     THEN [ids |-> newState, written |-> {}]
     ELSE [ids |-> returned, written |-> written]

\* part_000 115-161: the objects a search assigns to. Every node of the full tree
\* is counted, the nodes a break would skip included; orderMoves sorts the array
\* returned by getLegalMoves in place.
RECURSIVE searchWritten(_, _, _, _)
searchWritten(ids, state, depth, path) ==
  IF atLeaf(state, depth) THEN {}
  ELSE
    LET moves == getLegalMoves(state, state.turn)
    IN getLegalMovesWritten(path) \cup
       UNION { LET made == makeMoveObjects(ids, state, moves[i], path \o <<i>>)
               IN made.written \cup
                  searchWritten(made.ids, makeMove(state, moves[i]), depth - 1, path \o <<i>>)
               : i \in 1..Len(moves) }

\* ───────── Bounds ─────────
\* plies explored from a position of LongFens
MaxPly == 3
\* plies explored from a position of ShortFens and beyond an opening line
MaxShortPly == 1
\* makeMove calls with caller-chosen moves explored from a position
MaxAnyPly == 1
\* plies explored from a position of SearchFens
MaxSearchPly == 1
\* largest depth passed to getBestMove
MaxDepth == 2
\* clicks of the user explored in game mode
MaxClicks == 5
\* clicks of the user explored in practice mode
MaxPuzzleClicks == 6
\* largest depth the application passes to getBestMove
MaxBotDepth == 1

\* ───────── State machine: a caller holding a game state ─────────
VARIABLES
  state,      \* the GameState the caller holds (gameState / puzzleState)
  prev,       \* the state passed to the last makeMove call
  move,       \* the move passed to the last makeMove call
  ret,        \* "init" before any call, "state" when the call returned a state, "null" otherwise
  pliesLeft,  \* makeMove calls still allowed in this run
  searched,   \* depth and result of the search made on state since the last call, if any
  objects,    \* the objects of state (held) and of the state passed to the last call
              \* (passed), the objects that call assigned to (written), the objects
              \* of all states that existed before it (before), the calls made (calls)
  app         \* the variables of ChessApp (part_001 6-12), what ChessBoard shows, the
              \* pending timers, and a record of what the last timer did

engineVars == <<state, prev, move, ret, pliesLeft, searched, objects>>
vars == <<state, prev, move, ret, pliesLeft, searched, objects, app>>

NoMove == Plain(NoSquare, NoSquare)
NoSearch == [depth |-> -1, result |-> leaf(0)]
\* the objects of a state nothing has been called on yet
Fresh(s) ==
  [held |-> allocState(<<0>>, s), passed |-> allocState(<<0>>, s),
   written |-> {}, before |-> {}, calls |-> 0]

\* no timer has fired yet
NoTimer == [applied |-> FALSE, color |-> "-", playerColor |-> "-", tag |-> 0, current |-> 0,
            on |-> Null, position |-> Null]

\* part_001 6-12 and 28: the application after init(); part_000 186: the board
Boot ==
  [currentMode |-> "null", gameState |-> Null, playerColor |-> WHITE,
   currentPuzzleIndex |-> 0, puzzleMoveIndex |-> 0, puzzleState |-> Null,
   botThinking |-> FALSE,
   screen |-> "menu", interactive |-> TRUE, handlers |-> FALSE,
   timers |-> <<>>,
   games |-> 0, loads |-> 0, moved |-> FALSE, last |-> NoTimer, clicksLeft |-> 0]

\* a game loaded from a FEN position; no call made yet
Loaded(fen) ==
  /\ app = Boot
  /\ state = stateFromFEN(fen)
  /\ prev = state
  /\ move = NoMove
  /\ ret = "init"
  /\ searched = NoSearch
  /\ objects = Fresh(state)

\* a game played from the standard start along a line; the last call made the line's last move
Played(line) ==
  /\ app = Boot
  /\ IF line = <<>>
     THEN /\ state = createInitialState
          /\ prev = state
          /\ move = NoMove
          /\ ret = "init"
          /\ searched = NoSearch
          /\ objects = Fresh(state)
     ELSE LET before == playLine(createInitialState, SubSeq(line, 1, Len(line) - 1))
              last == legalMove(before, line[Len(line)][1], line[Len(line)][2])
          IN /\ prev = before
             /\ move = last
             /\ state = makeMove(before, last)
             /\ ret = "state"
             /\ searched = NoSearch
             /\ objects = Fresh(state)

Init ==
  \/ \E fen \in LongFens : Loaded(fen) /\ pliesLeft = MaxPly
  \/ \E fen \in ShortFens : Loaded(fen) /\ pliesLeft = MaxShortPly
  \/ \E line \in OpeningLines : Played(line) /\ pliesLeft = MaxShortPly

\* the caller passes a move to makeMove and keeps the returned state (part_001 83-86,
\* 111-117); scratch are the objects assigned to while the move was being chosen
Call(m, scratch) ==
  LET newState == makeMove(state, m)
      made == makeMoveObjects(objects.held, state, m, <<objects.calls + 1>>)
  IN /\ prev' = state
     /\ objects' = [held |-> IF newState = Null THEN objects.held ELSE made.ids,
                    passed |-> objects.held,
                    written |-> made.written \cup scratch,
                    before |-> objects.before \cup reach(objects.held),
                    calls |-> objects.calls + 1]
     /\ move' = m
     /\ pliesLeft' = pliesLeft - 1
     /\ searched' = NoSearch
     /\ UNCHANGED app
     /\ IF newState = Null
        THEN ret' = "null" /\ UNCHANGED state
        ELSE ret' = "state" /\ state' = newState

\* a move taken from getLegalMoves(state) is applied
PlayLegal ==
  /\ pliesLeft > 0
  /\ LET legal == getLegalMoves(state, state.turn)
     IN \E i \in 1..Len(legal) :
          Call(legal[i], getLegalMovesWritten(<<objects.calls + 1, 0>>))

Next == PlayLegal

Spec == Init /\ [][Next]_vars

\* ───────── Calls with moves chosen by the caller ─────────
ProbeSquares == {Sq(0,4), Sq(1,0), Sq(4,4), Sq(6,1), Sq(7,0)}
ProbeMoves ==
  { Plain(f, t) : f \in ProbeSquares, t \in ProbeSquares } \cup
  { Mv(Sq(6,1), Sq(0,4), QUEEN, FALSE, "-"), Mv(Sq(6,1), Sq(4,4), "-", TRUE, "-"),
    Mv(Sq(7,0), Sq(4,4), "-", FALSE, "K") }

AnyStarts == {FenMateInOne, FenStalemate, FenFiftyMove, FenCastle}

InitAny ==
  \/ \E fen \in AnyStarts : Loaded(fen) /\ pliesLeft = MaxAnyPly
  \/ \E line \in {<<>>, LineWhiteEnPassant} : Played(line) /\ pliesLeft = MaxAnyPly

\* any move, legal or not, is passed to makeMove
PlayAny ==
  /\ pliesLeft > 0
  /\ \E m \in ProbeMoves : Call(m, {})

NextAny == PlayLegal \/ PlayAny

SpecAny == InitAny /\ [][NextAny]_vars

\* ───────── The bot asked for a move (part_001 105, 262) ─────────
InitSearch == \E fen \in SearchFens : Loaded(fen) /\ pliesLeft = MaxSearchPly

\* getBestMove(state, depth) is called on the state held; the state is not replaced
Search(depth) ==
  /\ searched = NoSearch
  /\ searched' = [depth |-> depth,
                  result |-> minimax(state, depth, 0 - Infinity, Infinity, state.turn = WHITE)]
  /\ objects' = [objects EXCEPT
                    !.passed = objects.held,
                    !.written = searchWritten(objects.held, state, depth, <<0, objects.calls + 1>>)]
  /\ UNCHANGED <<state, prev, move, ret, pliesLeft, app>>

NextSearch == PlayLegal \/ \E depth \in 0..MaxDepth : Search(depth)

SpecSearch == InitSearch /\ [][NextSearch]_vars

\* ───────── Calls of all three kinds on one state ─────────
\* a move from an empty square and a move of a piece, neither taken from getLegalMoves
FrameProbes == {Plain(Sq(4, 0), Sq(3, 0)), Plain(Sq(7, 0), Sq(0, 0))}

PlayProbe ==
  /\ pliesLeft > 0
  /\ \E m \in FrameProbes : Call(m, {})

NextObjects == PlayLegal \/ PlayProbe \/ \E depth \in 0..MaxDepth : Search(depth)

SpecObjects == InitSearch /\ [][NextObjects]_vars

\* ───────── The application: screens and the board (part_001 32-45, part_000 195-268) ─────────
\* app.screen is the screen left visible by the classList calls; app.interactive
\* is ChessBoard's flag and app.handlers tells whether the squares drawn by the
\* last render carry click handlers. app.timers are the setTimeout callbacks not
\* yet run. app.games, app.loads, app.moved and app.last are kept for the
\* properties only: the number of games started and of puzzles loaded, whether
\* the player has moved since the last loadPuzzle, and what the last timer did.

\* part_001 32-38
showMainMenu(a) == [a EXCEPT !.currentMode = "null", !.screen = "menu"]

\* part_001 40-45
showColorSelect(a) == [a EXCEPT !.screen = "color"]

\* part_000 195-268: the squares get click handlers when the board is interactive
\* and the game shown is not over
render(a, shown) == [a EXCEPT !.handlers = a.interactive /\ ~shown.gameOver]

\* a callback handed to setTimeout; tag and position tell where it was scheduled
Timer(kind, tag, position) == [kind |-> kind, tag |-> tag, position |-> position]

\* the sequence without its i-th element
RemoveAt(seq, i) == SubSeq(seq, 1, i - 1) \o SubSeq(seq, i + 1, Len(seq))

\* ───────── Game mode (part_001 49-130) ─────────
\* part_001 49-77
startGameMode(a, color) ==
  LET started == render([a EXCEPT !.currentMode = "game", !.playerColor = color,
                                  !.gameState = createInitialState, !.screen = "game",
                                  !.interactive = TRUE],
                        createInitialState)
  IN IF color = BLACK
     THEN [render([started EXCEPT !.interactive = FALSE], createInitialState)
             EXCEPT !.timers = Append(@, Timer("botMove", a.games, Null))]
     ELSE started

\* part_001 89-100: the state after the player's move is shown
afterPlayerMove(a, newState) ==
  IF newState.gameOver
  THEN [render([a EXCEPT !.gameState = newState], newState) EXCEPT !.interactive = FALSE]
  ELSE [render([a EXCEPT !.gameState = newState, !.botThinking = TRUE,
                         !.interactive = FALSE], newState)
          EXCEPT !.timers = Append(@, Timer("botMove", a.games, Null))]

\* part_001 83-84
playerMoveMade(a, newState) == IF newState = Null THEN a ELSE afterPlayerMove(a, newState)

\* part_001 79-102
handlePlayerMove(a, m) ==
  IF a.botThinking \/ a.gameState.gameOver THEN a
  ELSE IF a.gameState.turn # a.playerColor THEN a
  ELSE playerMoveMade(a, makeMove(a.gameState, m))

\* part_001 116-129: the state after the bot's move is shown
afterBotMove(a, newState) ==
  IF newState = Null THEN [a EXCEPT !.botThinking = FALSE]
  ELSE LET shown == render([a EXCEPT !.gameState = newState, !.botThinking = FALSE,
                                     !.interactive = TRUE], newState)
       IN IF newState.gameOver THEN [shown EXCEPT !.interactive = FALSE] ELSE shown

\* part_001 106-114
botMoveChosen(a, m) ==
  IF m = Null THEN [a EXCEPT !.botThinking = FALSE]
  ELSE afterBotMove(a, makeMove(a.gameState, m))

\* part_001 104-130; the depth 3 of line 105 is capped by MaxBotDepth
botMove(a) == botMoveChosen(a, getBestMove(a.gameState, Min(3, MaxBotDepth)))

\* the moves the player makes on the board: legal moves of the state shown
\* (part_000 270-300) between these squares
PlayerSquares == { <<Sq(6,4), Sq(4,4)>>, <<Sq(7,6), Sq(5,5)>>, <<Sq(1,4), Sq(3,4)>>, <<Sq(0,6), Sq(2,5)>> }
boardMoves(s, squares) ==
  LET legal == getLegalMoves(s, s.turn)
  IN { legal[i] : i \in { j \in 1..Len(legal) : <<legal[j].from, legal[j].to>> \in squares } }

\* one click of the user is spent
clicked(a) == [a EXCEPT !.clicksLeft = @ - 1]

\* btn-game-mode on the menu, btn-new-game on the game screen (part_001 16, 20)
ClickNewGame ==
  /\ app.clicksLeft > 0
  /\ app.screen \in {"menu", "game"}
  /\ app' = showColorSelect(clicked(app))
  /\ UNCHANGED engineVars

\* btn-play-white, btn-play-black (part_001 21-22)
ClickColor(color) ==
  /\ app.clicksLeft > 0
  /\ app.screen = "color"
  /\ app' = startGameMode([clicked(app) EXCEPT !.games = @ + 1], color)
  /\ UNCHANGED engineVars

\* btn-back-menu (part_001 18)
ClickBackToMenu ==
  /\ app.clicksLeft > 0
  /\ app.screen = "game"
  /\ app' = showMainMenu(clicked(app))
  /\ UNCHANGED engineVars

\* a move made on the board reaches onMove (part_000 265-267, 284-291)
ClickBoardMove ==
  /\ app.clicksLeft > 0
  /\ app.screen = "game"
  /\ app.handlers
  /\ \E m \in boardMoves(app.gameState, PlayerSquares) :
       app' = handlePlayerMove(clicked(app), m)
  /\ UNCHANGED engineVars

\* what a botMove timer did: the colour of the piece it moved, if it moved one
botTimerRecord(a, timer, after) ==
  [applied |-> after.gameState # a.gameState,
   color |-> IF after.gameState # a.gameState THEN opponent(after.gameState.turn) ELSE "-",
   playerColor |-> a.playerColor, tag |-> timer.tag, current |-> a.games,
   on |-> Null, position |-> Null]

\* the application once the timer has run, with the record of what it did
botTimerFired(a, timer, after) == [after EXCEPT !.last = botTimerRecord(a, timer, after)]

\* a timer set at part_001 75 or 101 runs botMove
BotTimer ==
  /\ \E i \in 1..Len(app.timers) :
       /\ app.timers[i].kind = "botMove"
       /\ app' = botTimerFired([app EXCEPT !.timers = RemoveAt(@, i)], app.timers[i],
                               botMove([app EXCEPT !.timers = RemoveAt(@, i)]))
  /\ UNCHANGED engineVars

\* the page has been loaded; no engine call is traced
Booted(clicks) ==
  /\ app = [Boot EXCEPT !.clicksLeft = clicks]
  /\ state = createInitialState
  /\ prev = state
  /\ move = NoMove
  /\ ret = "init"
  /\ pliesLeft = 0
  /\ searched = NoSearch
  /\ objects = Fresh(state)

InitGame == Booted(MaxClicks)

NextGame ==
  \/ ClickNewGame
  \/ \E color \in {WHITE, BLACK} : ClickColor(color)
  \/ ClickBackToMenu
  \/ ClickBoardMove
  \/ BotTimer

SpecGame == InitGame /\ [][NextGame]_vars

\* ───────── Puzzles (puzzles.js 6-86) ─────────

\* puzzles.js 6-86: id, fen, solutionMoves and playerColor of each puzzle; the texts
\* shown to the player are left out
Puzzles ==
  << \* 6k1/5ppp/8/8/8/8/1Q6/K7 w - - 0 1
     [id |-> 1,
      fen |-> <<"6", "k", "1", "/", "5", "p", "p", "p", "/", "8", "/", "8", "/", "8", "/", "8", "/", "1", "Q", "6", "/", "K", "7", " ", "w", " ", "-", " ", "-", " ", "0", " ", "1">>,
      playerColor |-> WHITE,
      solutionMoves |-> << [from |-> Sq(6,1), to |-> Sq(0,1)] >>],
     \* r1bqkb1r/pppp1ppp/2n2n2/4p2Q/2B1P3/8/PPPP1PPP/RNB1K1NR w KQkq - 4 4
     [id |-> 2,
      fen |-> <<"r", "1", "b", "q", "k", "b", "1", "r", "/", "p", "p", "p", "p", "1", "p", "p", "p", "/", "2", "n", "2", "n", "2", "/", "4", "p", "2", "Q", "/", "2", "B", "1", "P", "3", "/", "8", "/", "P", "P", "P", "P", "1", "P", "P", "P", "/", "R", "N", "B", "1", "K", "1", "N", "R", " ", "w", " ", "K", "Q", "k", "q", " ", "-", " ", "4", " ", "4">>,
      playerColor |-> WHITE,
      solutionMoves |-> << [from |-> Sq(3,7), to |-> Sq(1,5)] >>],
     \* r2qkb1r/pp2nppp/3p4/2pNN1B1/2BnP3/3P4/PPP2PPP/R2bK2R w KQkq - 0 1
     [id |-> 3,
      fen |-> <<"r", "2", "q", "k", "b", "1", "r", "/", "p", "p", "2", "n", "p", "p", "p", "/", "3", "p", "4", "/", "2", "p", "N", "N", "1", "B", "1", "/", "2", "B", "n", "P", "3", "/", "3", "P", "4", "/", "P", "P", "P", "2", "P", "P", "P", "/", "R", "2", "b", "K", "2", "R", " ", "w", " ", "K", "Q", "k", "q", " ", "-", " ", "0", " ", "1">>,
      playerColor |-> WHITE,
      solutionMoves |-> << [from |-> Sq(3,4), to |-> Sq(1,5)], [from |-> Sq(7,3), to |-> Sq(0,3)] >>],
     \* rnb1kbnr/pppp1ppp/8/4p3/4P1q1/3P4/PPP2PPP/RNBQKBNR w KQkq - 0 1
     [id |-> 4,
      fen |-> <<"r", "n", "b", "1", "k", "b", "n", "r", "/", "p", "p", "p", "p", "1", "p", "p", "p", "/", "8", "/", "4", "p", "3", "/", "4", "P", "1", "q", "1", "/", "3", "P", "4", "/", "P", "P", "P", "2", "P", "P", "P", "/", "R", "N", "B", "Q", "K", "B", "N", "R", " ", "w", " ", "K", "Q", "k", "q", " ", "-", " ", "0", " ", "1">>,
      playerColor |-> WHITE,
      solutionMoves |-> << [from |-> Sq(7,5), to |-> Sq(6,4)] >>],
     \* r1bqkbnr/pppppppp/2n5/8/4P3/8/PPPP1PPP/RNBQKB1R b KQkq - 0 2
     [id |-> 5,
      fen |-> <<"r", "1", "b", "q", "k", "b", "n", "r", "/", "p", "p", "p", "p", "p", "p", "p", "p", "/", "2", "n", "5", "/", "8", "/", "4", "P", "3", "/", "8", "/", "P", "P", "P", "P", "1", "P", "P", "P", "/", "R", "N", "B", "Q", "K", "B", "1", "R", " ", "b", " ", "K", "Q", "k", "q", " ", "-", " ", "0", " ", "2">>,
      playerColor |-> BLACK,
      solutionMoves |-> << [from |-> Sq(2,2), to |-> Sq(4,3)] >>],
     \* 6k1/5ppp/8/8/8/8/5PPP/R5K1 w - - 0 1
     [id |-> 6,
      fen |-> <<"6", "k", "1", "/", "5", "p", "p", "p", "/", "8", "/", "8", "/", "8", "/", "8", "/", "5", "P", "P", "P", "/", "R", "5", "K", "1", " ", "w", " ", "-", " ", "-", " ", "0", " ", "1">>,
      playerColor |-> WHITE,
      solutionMoves |-> << [from |-> Sq(7,0), to |-> Sq(0,0)] >>],
     \* 4k3/8/8/8/8/8/R7/R3K3 w - - 0 1
     [id |-> 7,
      fen |-> <<"4", "k", "3", "/", "8", "/", "8", "/", "8", "/", "8", "/", "8", "/", "R", "7", "/", "R", "3", "K", "3", " ", "w", " ", "-", " ", "-", " ", "0", " ", "1">>,
      playerColor |-> WHITE,
      solutionMoves |-> << [from |-> Sq(6,0), to |-> Sq(0,0)] >>],
     \* rn2kb1r/ppp1pppp/5n2/3q4/3P2b1/2N2N2/PPP1BPPP/R1BQK2R w KQkq - 0 1
     [id |-> 8,
      fen |-> <<"r", "n", "2", "k", "b", "1", "r", "/", "p", "p", "p", "1", "p", "p", "p", "p", "/", "5", "n", "2", "/", "3", "q", "4", "/", "3", "P", "2", "b", "1", "/", "2", "N", "2", "N", "2", "/", "P", "P", "P", "1", "B", "P", "P", "P", "/", "R", "1", "B", "Q", "K", "2", "R", " ", "w", " ", "K", "Q", "k", "q", " ", "-", " ", "0", " ", "1">>,
      playerColor |-> WHITE,
      solutionMoves |-> << [from |-> Sq(5,2), to |-> Sq(3,3)] >>] >>

\* puzzles.js 96-105
checkMove(puzzle, moveIndex, m) ==
  IF moveIndex >= Len(puzzle.solutionMoves) THEN FALSE
  ELSE LET expected == puzzle.solutionMoves[moveIndex + 1]
       IN /\ m.from.row = expected.from.row
          /\ m.from.col = expected.from.col
          /\ m.to.row = expected.to.row
          /\ m.to.col = expected.to.col

\* ───────── Practice mode (part_001 172-277) ─────────
\* part_001 190-215: the puzzle's position is installed and shown
puzzleLoaded(a, index, loaded) ==
  render([a EXCEPT !.currentPuzzleIndex = index, !.puzzleMoveIndex = 0,
                   !.puzzleState = loaded, !.interactive = TRUE],
         loaded)

\* part_001 185-216
loadPuzzle(a, index) ==
  IF index < 0 \/ index >= Len(Puzzles) THEN a
  ELSE puzzleLoaded(a, index, stateFromFEN(Puzzles[index + 1].fen))

\* part_001 172-183
startPracticeMode(a) ==
  loadPuzzle([a EXCEPT !.currentMode = "practice", !.currentPuzzleIndex = 0,
                       !.screen = "practice"], 0)

\* part_001 275-277
navigatePuzzle(a, direction) == loadPuzzle(a, a.currentPuzzleIndex + direction)

\* part_001 237-272: the correct move is shown; a reply is scheduled unless the
\* puzzle is solved
afterPuzzleMove(a, puzzle, newState) ==
  IF a.puzzleMoveIndex + 1 >= Len(puzzle.solutionMoves)
  THEN render([a EXCEPT !.puzzleState = newState, !.puzzleMoveIndex = @ + 1,
                        !.interactive = FALSE], newState)
  ELSE [render([a EXCEPT !.puzzleState = newState, !.puzzleMoveIndex = @ + 1,
                         !.interactive = FALSE], newState)
          EXCEPT !.timers = Append(@, Timer("reply", a.loads, newState))]

\* part_001 234-235
puzzleMoveMade(a, puzzle, newState) ==
  IF newState = Null THEN a ELSE afterPuzzleMove(a, puzzle, newState)

\* part_001 218-273
handlePuzzleMove(a, m) ==
  IF ~checkMove(Puzzles[a.currentPuzzleIndex + 1], a.puzzleMoveIndex, m)
  THEN render(a, a.puzzleState)
  ELSE puzzleMoveMade(a, Puzzles[a.currentPuzzleIndex + 1], makeMove(a.puzzleState, m))

\* part_001 264-270: the state after the reply is shown
afterReply(a, afterBot) ==
  IF afterBot = Null THEN render([a EXCEPT !.interactive = TRUE], a.puzzleState)
  ELSE render([a EXCEPT !.puzzleState = afterBot, !.interactive = TRUE], afterBot)

\* part_001 263-270
replyChosen(a, m) ==
  IF m = Null THEN render([a EXCEPT !.interactive = TRUE], a.puzzleState)
  ELSE afterReply(a, makeMove(a.puzzleState, m))

\* part_001 261-271, the callback of the timer; the depth 2 of line 262 is capped
\* by MaxBotDepth
puzzleReply(a) == replyChosen(a, getBestMove(a.puzzleState, Min(2, MaxBotDepth)))

\* the squares of the solution moves of a puzzle
solutionSquares(puzzle) ==
  { <<puzzle.solutionMoves[k].from, puzzle.solutionMoves[k].to>> :
      k \in 1..Len(puzzle.solutionMoves) }

\* the moves the player makes on the practice board: the legal moves of the state
\* shown that run between the squares of a solution move, and one other legal move
puzzleBoardMoves(a) ==
  LET legal == getLegalMoves(a.puzzleState, a.puzzleState.turn)
  IN boardMoves(a.puzzleState, solutionSquares(Puzzles[a.currentPuzzleIndex + 1]))
       \cup { legal[i] : i \in 1..Min(1, Len(legal)) }

\* a puzzle is about to be loaded
loading(a) == [a EXCEPT !.loads = @ + 1, !.moved = FALSE]

\* btn-practice-mode on the menu (part_001 17)
ClickPractice ==
  /\ app.clicksLeft > 0
  /\ app.screen = "menu"
  /\ app' = startPracticeMode(loading(clicked(app)))
  /\ UNCHANGED engineVars

\* btn-back-menu-practice (part_001 19)
ClickLeavePractice ==
  /\ app.clicksLeft > 0
  /\ app.screen = "practice"
  /\ app' = showMainMenu(clicked(app))
  /\ UNCHANGED engineVars

\* btn-retry-puzzle (part_001 25)
ClickRetry ==
  /\ app.clicksLeft > 0
  /\ app.screen = "practice"
  /\ app' = loadPuzzle(loading(clicked(app)), app.currentPuzzleIndex)
  /\ UNCHANGED engineVars

\* btn-prev-puzzle and btn-next-puzzle (part_001 23-24), unless disabled by the
\* last loadPuzzle (part_001 202-203)
ClickNavigate(direction) ==
  /\ app.clicksLeft > 0
  /\ app.screen = "practice"
  /\ app.currentPuzzleIndex + direction \in 0..(Len(Puzzles) - 1)
  /\ app' = navigatePuzzle(loading(clicked(app)), direction)
  /\ UNCHANGED engineVars

\* the application after the player's click on the board, with the note that
\* the player has moved
puzzleClicked(a, after) == [after EXCEPT !.moved = a.moved \/ after.puzzleState # a.puzzleState]

\* a move made on the practice board reaches onMove (part_000 265-267, 284-291)
ClickPuzzleMove ==
  /\ app.clicksLeft > 0
  /\ app.screen = "practice"
  /\ app.handlers
  /\ \E m \in puzzleBoardMoves(app) :
       app' = puzzleClicked(app, handlePuzzleMove(clicked(app), m))
  /\ UNCHANGED engineVars

\* what a reply timer did: the position it found and the one it was set in
replyTimerFired(a, timer, after) ==
  [after EXCEPT !.last =
     [applied |-> after.puzzleState # a.puzzleState,
      color |-> IF after.puzzleState # a.puzzleState
                THEN opponent(after.puzzleState.turn) ELSE "-",
      playerColor |-> Puzzles[a.currentPuzzleIndex + 1].playerColor,
      tag |-> timer.tag, current |-> a.loads,
      on |-> a.puzzleState, position |-> timer.position]]

\* the timer set at part_001 261 runs
ReplyTimer ==
  /\ \E i \in 1..Len(app.timers) :
       /\ app.timers[i].kind = "reply"
       /\ app' = replyTimerFired([app EXCEPT !.timers = RemoveAt(@, i)], app.timers[i],
                                 puzzleReply([app EXCEPT !.timers = RemoveAt(@, i)]))
  /\ UNCHANGED engineVars

InitPractice == Booted(MaxPuzzleClicks)

NextPractice ==
  \/ ClickPractice
  \/ ClickLeavePractice
  \/ ClickRetry
  \/ \E direction \in {-1, 1} : ClickNavigate(direction)
  \/ ClickPuzzleMove
  \/ ReplyTimer

SpecPractice == InitPractice /\ [][NextPractice]_vars

\* ───────── Properties ─────────
Colors == {WHITE, BLACK}

\* some piece of byColor has a pseudo-legal move that lands on the square
capturable(board, sq, byColor) ==
  LET s == [createInitialState EXCEPT !.board = board]
      pseudo == getPseudoMoves(s, byColor)
  IN \E i \in 1..Len(pseudo) : pseudo[i].to = sq

\* C1: legality closure -- applying any move of getLegalMoves(state, c), for either
\* colour c, leaves a board on which the king of colour c is present and neither
\* attacked by the opponent nor the destination of an opponent's pseudo-legal move.
C1_LegalityClosure ==
  \A c \in Colors :
    LET legal == getLegalMoves(state, c)
    IN \A i \in 1..Len(legal) :
         LET board == applyMoveToBoard(state.board, legal[i])
             king == findKing(board, c)
         IN findKing(state.board, c) # NoSquare =>
              /\ king # NoSquare
              /\ ~isSquareAttacked(board, king.row, king.col, opponent(c))
              /\ ~capturable(board, king, opponent(c))

\* C1 witness: the side to move has legal moves, and a pseudo-legal en-passant
\* capture that the legality filter rejects.
C1_Witness ==
  LET pseudo == getPseudoMoves(state, state.turn)
      legal == getLegalMoves(state, state.turn)
  IN /\ \E i \in 1..Len(pseudo) :
          /\ pseudo[i].enPassant
          /\ \A j \in 1..Len(legal) : legal[j] # pseudo[i]
     /\ Len(legal) > 0

\* C2: turn alternation -- whenever makeMove returns a state, its turn is the
\* opponent of the turn of the state passed in.
C2_TurnAlternation ==
  ret = "state" => state.turn = opponent(prev.turn)

\* C3: makeMove returns null exactly when the origin square of the move is empty
\* on the board passed in; otherwise it returns a new state that records the move.
C3_NullIffEmptyOrigin ==
  ret # "init" =>
    /\ (ret = "null") <=> (prev.board[move.from.row][move.from.col] = EMPTY)
    /\ ret = "null" => state = prev
    /\ ret = "state" =>
         /\ Len(state.moveHistory) = Len(prev.moveHistory) + 1
         /\ state.moveHistory[Len(state.moveHistory)].move = move
         /\ state.board[move.from.row][move.from.col] = EMPTY \/ move.from = move.to

\* C3 witness: a call on an empty origin square returned null.
C3_Witness ==
  ret = "null" /\ prev.board[move.from.row][move.from.col] = EMPTY

\* the arguments and the outcome of the last call
movedPiece == prev.board[move.from.row][move.from.col]
capturedPiece == prev.board[move.to.row][move.to.col]
lastNotation == state.moveNotations[Len(state.moveNotations)]
hasLegalMove(s) == Len(getLegalMoves(s, s.turn)) > 0
winFor(color) == IF color = WHITE THEN "1-0" ELSE "0-1"
Draw == "1/2-1/2"

\* squares holding a piece of the colour other than the king
material(board, color) ==
  { sq \in (0..7) \X (0..7) :
      board[sq[1]][sq[2]].color = color /\ board[sq[1]][sq[2]].type # KING }

\* the three material patterns of the draw rule, read off the board by counting
materialPattern(board) ==
  LET w == material(board, WHITE)
      b == material(board, BLACK)
      minor(set) == \E sq \in set : set = {sq} /\ board[sq[1]][sq[2]].type \in {BISHOP, KNIGHT}
      bishop(set) == \E sq \in set : set = {sq} /\ board[sq[1]][sq[2]].type = BISHOP
  IN \/ w = {} /\ b = {}
     \/ w = {} /\ minor(b)
     \/ b = {} /\ minor(w)
     \/ /\ bishop(w) /\ bishop(b)
        /\ \E p \in w : \E q \in b : (p[1] + p[2]) % 2 = (q[1] + q[2]) % 2

\* C4: terminality is permanent -- a call on a state with gameOver = true returns
\* a state with gameOver = true and the same result.
C4_TerminalityPermanent ==
  (ret = "state" /\ prev.gameOver) => (state.gameOver /\ state.result = prev.result)

\* C5: a legal move applied to a non-terminal state gives a state with gameOver
\* exactly when its side to move has no legal move, or the material is insufficient,
\* or the half-move clock has reached 100; a state returned with gameOver = false
\* has a legal move.
C5_GameOverIff ==
  (ret = "state" /\ ~prev.gameOver) =>
    /\ state.gameOver <=> \/ ~hasLegalMove(state)
                          \/ materialPattern(state.board)
                          \/ state.halfMoveClock >= 100
    /\ ~state.gameOver => hasLegalMove(state)

\* C5 witness: a legal move from a non-terminal state ended the game although
\* the side to move has legal moves and the clock is below 100.
C5_Witness ==
  /\ ret = "state" /\ ~prev.gameOver /\ state.gameOver
  /\ hasLegalMove(state) /\ state.halfMoveClock < 100

\* C6: checkmate -- when makeMove returns a state whose side to move is in check
\* and has no legal move, the state has gameOver, the result is the win of the
\* colour of the moved piece, and the notation of the move ends in "#"; from
\* puzzle 1 the move (6,1)->(0,1) gives gameOver, "1-0" and a notation ending in "#".
C6_Checkmate ==
  /\ (ret = "state" /\ isInCheck(state.board, state.turn) /\ ~hasLegalMove(state)) =>
       /\ state.gameOver
       /\ state.result = winFor(movedPiece.color)
       /\ lastNotation[Len(lastNotation)] = "#"
  /\ (ret = "state" /\ prev = stateFromFEN(FenMateInOne)
        /\ move.from = Sq(6, 1) /\ move.to = Sq(0, 1) /\ move.promotion = "-"
        /\ ~move.enPassant /\ move.castling = "-") =>
       /\ state.gameOver
       /\ state.result = "1-0"
       /\ lastNotation = <<"Q", "b", "8", "#">>

\* C6 witness: the solution move of puzzle 1 was applied and left Black mated.
C6_Witness ==
  /\ ret = "state" /\ prev = stateFromFEN(FenMateInOne)
  /\ move = Plain(Sq(6, 1), Sq(0, 1))
  /\ isInCheck(state.board, BLACK) /\ ~hasLegalMove(state)

\* C7: stalemate -- when makeMove returns a state whose side to move has no legal
\* move and is not in check, the state has gameOver and result Draw, and the
\* notation of the move carries neither "+" nor "#".
C7_Stalemate ==
  (ret = "state" /\ ~isInCheck(state.board, state.turn) /\ ~hasLegalMove(state)) =>
    /\ state.gameOver
    /\ state.result = Draw
    /\ \A i \in 1..Len(lastNotation) : lastNotation[i] \notin {"+", "#"}

\* C7 witness: a move left the side to move with its king on the board, not in
\* check and without a legal move.
C7_Witness ==
  /\ ret = "state" /\ ~isInCheck(state.board, state.turn) /\ ~hasLegalMove(state)
  /\ findKing(state.board, state.turn) # NoSquare

\* the last call moved no pawn and captured nothing
quietMove == movedPiece.type # PAWN /\ capturedPiece = EMPTY /\ ~move.enPassant

\* C8 as stated: after a legal move that is neither a pawn move nor a capture the
\* clock is one higher; when it reaches 100 the game is declared a Draw, and below
\* 100 the game is not ended because of the clock.
C8_FiftyMoveDraw ==
  (ret = "state" /\ quietMove) =>
    /\ state.halfMoveClock = prev.halfMoveClock + 1
    /\ state.halfMoveClock >= 100 => (state.gameOver /\ state.result = Draw)
    /\ (state.halfMoveClock < 100 /\ state.gameOver /\ ~prev.gameOver) =>
         (~hasLegalMove(state) \/ materialPattern(state.board))

\* C8 amended: as C8, but at the ply where the clock reaches 100 the result is
\* Draw unless that move checkmates, and then it is the win of the mover.
C8_FiftyMoveAmended ==
  (ret = "state" /\ quietMove) =>
    /\ state.halfMoveClock = prev.halfMoveClock + 1
    /\ state.halfMoveClock >= 100 =>
         /\ state.gameOver
         /\ IF isInCheck(state.board, state.turn) /\ ~hasLegalMove(state)
            THEN state.result = winFor(movedPiece.color)
            ELSE state.result = Draw
    /\ (state.halfMoveClock < 100 /\ state.gameOver /\ ~prev.gameOver) =>
         (~hasLegalMove(state) \/ materialPattern(state.board))

\* C8 witness: a quiet move brought the clock from 99 to 100 in a game that was
\* not over, and the game is drawn although legal moves and material remain.
C8_Witness ==
  /\ ret = "state" /\ quietMove /\ ~prev.gameOver
  /\ prev.halfMoveClock = 99 /\ state.halfMoveClock = 100
  /\ state.gameOver /\ state.result = Draw
  /\ hasLegalMove(state) /\ ~materialPattern(state.board)

\* C9: insufficient material -- a state returned for a non-terminal state, whose
\* side to move has legal moves, is drawn by the material rule exactly when the
\* material other than the kings is one of the three patterns; with one bishop each
\* on squares of opposite parity the game goes on (while the clock is below 100).
C9_InsufficientMaterial ==
  (ret = "state" /\ ~prev.gameOver /\ hasLegalMove(state)) =>
    /\ materialPattern(state.board) => (state.gameOver /\ state.result = Draw)
    /\ (~materialPattern(state.board) /\ state.halfMoveClock < 100) => ~state.gameOver

\* C9 witness: a capture left one bishop each on squares of equal parity, the side
\* to move has legal moves and the game is drawn.
C9_Witness ==
  /\ ret = "state" /\ ~prev.gameOver /\ hasLegalMove(state)
  /\ state.gameOver /\ state.result = Draw
  /\ \E p \in material(state.board, WHITE) : \E q \in material(state.board, BLACK) :
       /\ material(state.board, WHITE) = {p} /\ material(state.board, BLACK) = {q}
       /\ state.board[p[1]][p[2]].type = BISHOP /\ state.board[q[1]][q[2]].type = BISHOP

\* the board after the pawn on `from` takes, in passing, the pawn that has just
\* been pushed two rows to `pushed`, written out square by square
boardAfterPassing(board, from, jumped, pushed) ==
  [r \in 0..7 |-> [c \in 0..7 |->
     IF Sq(r, c) = from \/ Sq(r, c) = pushed THEN EMPTY
     ELSE IF Sq(r, c) = jumped THEN board[from.row][from.col]
     ELSE board[r][c]]]

\* C10: en passant -- after a pawn's double push that lands beside an enemy pawn,
\* the legal moves of the side to move hold exactly one en-passant move of that
\* pawn, to the square jumped over, unless the capture would leave its own king
\* attacked, and then none; an applied en-passant move puts the capturing pawn on
\* its destination, which was empty, and removes the pushed pawn from the square
\* (origin row, destination column).
C10_EnPassant ==
  /\ (ret = "state" /\ movedPiece.type = PAWN /\ Abs(move.to.row - move.from.row) = 2) =>
       LET legal == getLegalMoves(state, state.turn)
           jumped == Sq((move.from.row + move.to.row) \div 2, move.from.col)
       IN \A nc \in {move.to.col - 1, move.to.col + 1} :
            (inBounds(move.to.row, nc)
               /\ state.board[move.to.row][nc] = Piece(state.turn, PAWN)) =>
              LET from == Sq(move.to.row, nc)
                  passing == { i \in 1..Len(legal) : legal[i].enPassant /\ legal[i].from = from }
                  after == boardAfterPassing(state.board, from, jumped, move.to)
                  king == findKing(after, state.turn)
              IN IF isSquareAttacked(after, king.row, king.col, opponent(state.turn))
                 THEN passing = {}
                 ELSE /\ Cardinality(passing) = 1
                      /\ \A i \in passing : legal[i].to = jumped
  /\ (ret = "state" /\ move.enPassant) =>
       /\ prev.board[move.to.row][move.to.col] = EMPTY
       /\ prev.board[move.from.row][move.to.col] = Piece(state.turn, PAWN)
       /\ state.board = boardAfterPassing(prev.board, move.from, move.to,
                                          Sq(move.from.row, move.to.col))
       /\ state.board[move.to.row][move.to.col] = Piece(prev.turn, PAWN)
       /\ state.board[move.from.row][move.to.col] = EMPTY

\* C10 witness: in a game from the standard start a double push was answered by
\* an en-passant capture.
C10_Witness ==
  /\ ret = "state" /\ move.enPassant
  /\ Len(state.moveHistory) >= 2
  /\ LET push == state.moveHistory[Len(state.moveHistory) - 1].move
     IN /\ Abs(push.to.row - push.from.row) = 2
        /\ push.to = Sq(move.from.row, move.to.col)
        /\ prev.board[push.to.row][push.to.col].type = PAWN

\* C11: FEN round trip -- with f = boardToFEN(state), serialising stateFromFEN(f)
\* gives f again, and stateFromFEN(f) agrees with state on board, turn, castling
\* rights, en-passant target, half-move clock and full-move number.
C11_FenRoundTrip ==
  LET f == boardToFEN(state)
      s == stateFromFEN(f)
  IN /\ boardToFEN(s) = f
     /\ s.board = state.board
     /\ s.turn = state.turn
     /\ s.castling = state.castling
     /\ s.enPassant = state.enPassant
     /\ s.halfMoveClock = state.halfMoveClock
     /\ s.fullMoveNumber = state.fullMoveNumber

\* C11 witness: a state of a game from the standard start with an en-passant
\* target and moves in its history, which the parsed state does not carry.
C11_Witness ==
  /\ state.enPassant # NoSquare
  /\ Len(state.moveHistory) >= 4
  /\ stateFromFEN(boardToFEN(state)).moveHistory = <<>>

\* C12: getBestMove returns no move only when the side to move has no legal
\* move -- whenever getLegalMoves(state) is non-empty, a search of any depth
\* returns a move.
C12_MoveWheneverLegalMove ==
  (searched.depth >= 0 /\ Len(getLegalMoves(state, state.turn)) > 0)
    => searched.result.move # Null

\* C12 as amended: a search returns no move exactly when the depth is 0, the
\* game is over or the side to move has no legal move; a move returned is one of
\* getLegalMoves(state).
C12_MoveUnlessLeafOrNoMove ==
  LET legal == getLegalMoves(state, state.turn)
  IN searched.depth >= 0 =>
       /\ searched.result.move = Null
            <=> (searched.depth = 0 \/ state.gameOver \/ Len(legal) = 0)
       /\ searched.result.move # Null
            => \E i \in 1..Len(legal) : legal[i] = searched.result.move

\* C12 witness: a search of positive depth on a finished game whose side to move
\* has legal moves has returned no move.
C12_Witness ==
  /\ searched.depth >= 1
  /\ state.gameOver
  /\ Len(getLegalMoves(state, state.turn)) > 0
  /\ searched.result.move = Null

\* C13: alpha-beta equivalence -- the score of minimax started with the window
\* (-Infinity, +Infinity) equals the score of the recursion without the breaks.
C13_AlphaBetaEquivalence ==
  searched.depth >= 0
    => searched.result.score = fullScore(state, searched.depth, state.turn = WHITE)

\* C13 witness: a search of depth two or more in which a break left moves unvisited.
C13_Witness ==
  /\ searched.depth >= 2
  /\ searched.result.skipped > 0
  /\ searched.result.move # Null

\* the squares strictly between two squares of one row, column or diagonal
between(a, b) ==
  LET n == Max(Abs(b.row - a.row), Abs(b.col - a.col))
  IN { Sq(a.row + k * ((b.row - a.row) \div n), a.col + k * ((b.col - a.col) \div n)) : k \in 1..(n - 1) }

\* the piece on square p attacks square sq, by the rules of chess
attacks(board, p, sq) ==
  LET piece == board[p.row][p.col]
      dr == sq.row - p.row
      dc == sq.col - p.col
      clear == \A b \in between(p, sq) : board[b.row][b.col] = EMPTY
      diagonal == Abs(dr) = Abs(dc) /\ dr # 0 /\ clear
      straight == (dr = 0 \/ dc = 0) /\ p # sq /\ clear
  IN CASE piece.type = PAWN -> dr = (IF piece.color = WHITE THEN -1 ELSE 1) /\ Abs(dc) = 1
       [] piece.type = KNIGHT -> {Abs(dr), Abs(dc)} = {1, 2}
       [] piece.type = KING -> Max(Abs(dr), Abs(dc)) = 1
       [] piece.type = BISHOP -> diagonal
       [] piece.type = ROOK -> straight
       [] piece.type = QUEEN -> diagonal \/ straight
       [] OTHER -> FALSE

attackedBy(board, sq, byColor) ==
  \E r \in 0..7, c \in 0..7 : board[r][c].color = byColor /\ attacks(board, Sq(r, c), sq)

castlingMoves(s, color) ==
  LET legal == getLegalMoves(s, color)
  IN { legal[i] : i \in { j \in 1..Len(legal) : legal[j].castling # "-" } }

\* C16: castling legality -- a castling move returned by getLegalMoves for colour
\* c has c's matching right set, c's king on column 4 of its home row, c's rook on
\* the corner, empty squares between them, the king not in check, and neither the
\* square crossed nor the destination attacked by the opponent.
C16_CastlingLegality ==
  \A color \in Colors : \A m \in castlingMoves(state, color) :
    LET row == IF color = WHITE THEN 7 ELSE 0
        kingSide == m.castling = "K"
        corner == IF kingSide THEN 7 ELSE 0
        crossed == IF kingSide THEN 5 ELSE 3
        destination == IF kingSide THEN 6 ELSE 2
        board == state.board
    IN /\ m.castling \in {"K", "Q"}
       /\ castleRight(state.castling, color, m.castling)
       /\ m.from = Sq(row, 4) /\ board[row][4] = Piece(color, KING)
       /\ m.to = Sq(row, destination)
       /\ \A b \in between(Sq(row, 4), Sq(row, corner)) : board[b.row][b.col] = EMPTY
       /\ board[row][corner] = Piece(color, ROOK)
       /\ \A col \in {4, crossed, destination} : ~attackedBy(board, Sq(row, col), opponent(color))

\* C16 witness: the side to move may castle on the queen side, and its king-side
\* castling is pseudo-legal but not legal.
C16_Witness ==
  LET pseudo == getPseudoMoves(state, state.turn)
  IN /\ \E m \in castlingMoves(state, state.turn) : m.castling = "Q"
     /\ \E i \in 1..Len(pseudo) : pseudo[i].castling = "K"
     /\ \A m \in castlingMoves(state, state.turn) : m.castling # "K"

\* C17: castling-rights update for rooks -- a right of a colour is cleared by a
\* call only if that colour's king moved, or that colour's rook left the matching
\* corner of its home rank, or that colour's rook was captured on that corner; in
\* particular a rook moving from, or captured on, column 0 or 7 of another row
\* leaves all four rights unchanged.
C17_RookRightsHomeRank ==
  ret = "state" =>
    \A color \in Colors : \A side \in {"K", "Q"} :
      LET home == Sq(IF color = WHITE THEN 7 ELSE 0, IF side = "K" THEN 7 ELSE 0)
      IN (castleRight(prev.castling, color, side) /\ ~castleRight(state.castling, color, side))
           => \/ movedPiece = Piece(color, KING)
              \/ movedPiece = Piece(color, ROOK) /\ move.from = home
              \/ capturedPiece = Piece(color, ROOK) /\ move.to = home

\* C18: checkmate takes precedence over draw detection -- when a move leaves the
\* opponent checkmated and the half-move clock at 100 or more, or the material in
\* a drawn pattern, the result is the win of the mover and not Draw.
C18_MateBeforeDraw ==
  (/\ ret = "state"
   /\ isInCheck(state.board, state.turn) /\ ~hasLegalMove(state)
   /\ (state.halfMoveClock >= FiftyMoveLimit \/ materialPattern(state.board)))
    => /\ state.gameOver
       /\ state.result = winFor(movedPiece.color)
       /\ state.result # Draw

\* C18 witness: a move of a game not yet over mated with the clock at 100.
C18_Witness ==
  /\ ret = "state" /\ ~prev.gameOver
  /\ isInCheck(state.board, state.turn) /\ ~hasLegalMove(state)
  /\ state.halfMoveClock >= FiftyMoveLimit
  /\ state.result = winFor(movedPiece.color)

doublePush == movedPiece.type = PAWN /\ Abs(move.to.row - move.from.row) = 2

\* C19: en-passant target lifetime -- after a successful makeMove, enPassant is
\* set exactly when the moved piece was a pawn that moved two rows, and it is then
\* the square between origin and destination on the origin column; a target set
\* by the ply before is gone unless this ply is a double push.
C19_EnPassantLifetime ==
  ret = "state" =>
    /\ state.enPassant # NoSquare <=> doublePush
    /\ doublePush =>
         /\ state.enPassant.col = move.from.col
         /\ state.enPassant.row > Min(move.from.row, move.to.row)
         /\ state.enPassant.row < Max(move.from.row, move.to.row)
    /\ (prev.enPassant # NoSquare /\ ~doublePush) => state.enPassant = NoSquare

\* C19 witness: a double push answered a double push, and the target moved on.
C19_Witness ==
  /\ ret = "state" /\ doublePush
  /\ prev.enPassant # NoSquare
  /\ state.enPassant # NoSquare /\ state.enPassant # prev.enPassant

\* the board after the first k moves of a history, replayed from the standard start
RECURSIVE replayBoard(_, _)
replayBoard(history, k) ==
  IF k = 0 THEN createInitialState.board
  ELSE applyMoveToBoard(replayBoard(history, k - 1), history[k].move)

\* the piece moved by ply k of the history, and the piece on its destination
replayMover(history, k) ==
  replayBoard(history, k - 1)[history[k].move.from.row][history[k].move.from.col]
replayTarget(history, k) ==
  replayBoard(history, k - 1)[history[k].move.to.row][history[k].move.to.col]

\* the state belongs to a game played from createInitialState
fromStart == replayBoard(state.moveHistory, Len(state.moveHistory)) = state.board

\* plies of the history that are pawn moves (en-passant captures among them) or captures
resetPlies(history) ==
  { k \in 1..Len(history) :
      replayMover(history, k).type = PAWN \/ replayTarget(history, k) # EMPTY }

pliesSinceReset(history) ==
  LET resets == resetPlies(history)
  IN IF resets = {} THEN Len(history)
     ELSE Len(history) - (CHOOSE k \in resets : \A j \in resets : j <= k)

blackPlies(history) ==
  Cardinality({ k \in 1..Len(history) : replayMover(history, k).color = BLACK })

\* C20: clock bookkeeping -- along legal moves from createInitialState,
\* halfMoveClock is the number of plies since the last pawn move or capture, and
\* fullMoveNumber is 1 plus the number of plies played by Black.
C20_ClockBookkeeping ==
  fromStart =>
    /\ state.halfMoveClock = pliesSinceReset(state.moveHistory)
    /\ state.fullMoveNumber = 1 + blackPlies(state.moveHistory)

\* C20 witness: in a game from the standard start a piece captured and brought a
\* running clock back to 0, Black having played.
C20_Witness ==
  /\ fromStart /\ ret = "state"
  /\ movedPiece.type # PAWN /\ capturedPiece # EMPTY
  /\ prev.halfMoveClock > 0 /\ state.halfMoveClock = 0
  /\ state.fullMoveNumber > 1

\* C15: immutability -- makeMove (returning a state or null), getLegalMoves and
\* getBestMove assign to no object of the state passed to them, nor to an object
\* of any state that existed before the call, so that moves applied to a state
\* never change another one; the state passed keeps the value of every field.
C15_Immutability ==
  /\ objects.written \cap (reach(objects.passed) \cup objects.before) = {}
  /\ (ret = "state" /\ searched = NoSearch) =>
       /\ objects.held.self \notin reach(objects.passed)
       /\ \A r \in 0..7 : objects.held.rows[r] \notin reach(objects.passed)
       /\ objects.held.castling # objects.passed.castling
       /\ objects.held.moveHistory # objects.passed.moveHistory
       /\ objects.held.moveNotations # objects.passed.moveNotations
       /\ {objects.held.capturedW, objects.held.capturedB}
            \cap {objects.passed.capturedW, objects.passed.capturedB} = {}

\* C15 witness: after a move made on a state whose history entries the new state
\* shares, a search has assigned to objects, none of them of the state searched.
C15_Witness ==
  /\ ret = "state" /\ searched.depth >= 1
  /\ objects.written # {}
  /\ objects.calls >= 1
  /\ Len(objects.held.entries) >= 1

\* the move of the last call was one of getLegalMoves of the state passed
lastMoveLegal ==
  LET legal == getLegalMoves(prev, prev.turn)
  IN ret = "state" /\ \E i \in 1..Len(legal) : legal[i] = move

\* C21: castling application -- a legal castling move leaves king and rook on
\* columns 6 and 5 (king side) or 2 and 3 (queen side) of the home row, the king's
\* column 4 and the rook's corner empty, every other square as it was, both
\* castling rights of the mover cleared and the half-move clock one higher.
C21_CastlingApplication ==
  (lastMoveLegal /\ move.castling # "-") =>
    LET color == prev.turn
        row == IF color = WHITE THEN 7 ELSE 0
        kingSide == move.castling = "K"
        kingCol == IF kingSide THEN 6 ELSE 2
        rookCol == IF kingSide THEN 5 ELSE 3
        corner == IF kingSide THEN 7 ELSE 0
    IN /\ state.board[row][kingCol] = Piece(color, KING)
       /\ state.board[row][rookCol] = Piece(color, ROOK)
       /\ state.board[row][4] = EMPTY
       /\ state.board[row][corner] = EMPTY
       /\ \A r \in 0..7, c \in 0..7 :
            (r # row \/ c \notin {4, kingCol, rookCol, corner})
              => state.board[r][c] = prev.board[r][c]
       /\ ~castleRight(state.castling, color, "K")
       /\ ~castleRight(state.castling, color, "Q")
       /\ state.halfMoveClock = prev.halfMoveClock + 1

\* C21 witness: White has castled on the queen side while holding both rights.
C21_Witness ==
  /\ lastMoveLegal /\ move.castling = "Q" /\ prev.turn = WHITE
  /\ prev.castling.wK /\ prev.castling.wQ
  /\ state.board[7][2] = Piece(WHITE, KING)

\* the side to move in s is checkmated
checkmated(s) == isInCheck(s.board, s.turn) /\ ~hasLegalMove(s)

\* the states one legal move below the state held
children ==
  LET legal == getLegalMoves(state, state.turn)
  IN { makeMove(state, legal[i]) : i \in 1..Len(legal) }

\* C22: mate distance preference -- every node of a search at which the side to
\* move is checkmated is scored with the mate score (99999 offset by the remaining
\* depth, negative when the mated side maximizes), not with the static
\* evaluation; here for the nodes one ply below the root.
C22_MateScored ==
  (searched.depth >= 1 /\ ~state.gameOver) =>
    \A child \in children :
      checkmated(child) =>
        minimax(child, searched.depth - 1, 0 - Infinity, Infinity, child.turn = WHITE).score
          = (IF child.turn = WHITE
             THEN (0 - MateScore) + (4 - (searched.depth - 1))
             ELSE MateScore - (4 - (searched.depth - 1)))

\* the root's moves in search order, and the unpruned value of the subtree of each
rootMoves == orderMoves(state, getLegalMoves(state, state.turn))
subtreeValue(i) ==
  fullScore(makeMove(state, rootMoves[i]), searched.depth - 1, state.turn # WHITE)
rootValue == fullScore(state, searched.depth, state.turn = WHITE)

\* C23: tie-breaking at the root -- for a state not over with legal moves and a
\* depth of 1 or more, the move returned is the first move in orderMoves order
\* whose subtree value equals the unpruned value of the root.
C23_FirstBestMove ==
  (searched.depth >= 1 /\ ~state.gameOver /\ Len(rootMoves) > 0) =>
    \E i \in 1..Len(rootMoves) :
      /\ searched.result.move = rootMoves[i]
      /\ subtreeValue(i) = rootValue
      /\ \A j \in 1..(i - 1) : subtreeValue(j) # rootValue

\* C23 witness: a later move has the same subtree value as the move returned, in
\* a search of depth two or more in which breaks skipped moves.
C23_Witness ==
  /\ searched.depth >= 2 /\ ~state.gameOver /\ Len(rootMoves) > 0
  /\ searched.result.skipped > 0
  /\ \E i \in 1..Len(rootMoves) : \E j \in (i + 1)..Len(rootMoves) :
       /\ searched.result.move = rootMoves[i]
       /\ subtreeValue(j) = rootValue

\* the board with the colour of every piece swapped and the rows reflected
mirrored(board) ==
  [r \in 0..7 |-> [c \in 0..7 |->
     IF board[7 - r][c] = EMPTY THEN EMPTY
     ELSE Piece(opponent(board[7 - r][c].color), board[7 - r][c].type)]]

\* C24: evaluation symmetry -- evaluate of the position with colours swapped and
\* rows reflected is the negation of evaluate of the position, and
\* evaluate(createInitialState()) is 0.
C24_EvaluationSymmetry ==
  /\ evaluate([state EXCEPT !.board = mirrored(state.board)]) = 0 - evaluate(state)
  /\ evaluate(createInitialState) = 0

\* C24 witness: a position that is not its own mirror image, with pawns of both
\* colours, whose evaluation is not 0.
C24_Witness ==
  /\ evaluate(state) # 0
  /\ mirrored(state.board) # state.board
  /\ \E r \in 0..7, c \in 0..7 : state.board[r][c] = Piece(BLACK, PAWN)
  /\ \E r \in 0..7, c \in 0..7 : state.board[r][c] = Piece(WHITE, PAWN)

\* ───────── C25: undo from the last history entry ─────────
lastEntry == state.moveHistory[Len(state.moveHistory)]

\* The board before the last move, rebuilt from the successor's board and the
\* last history entry only.
undoBoard ==
  LET m == lastEntry.move
      mover == opponent(state.turn)
      arrived == state.board[m.to.row][m.to.col]
      original == IF m.promotion # "-" THEN Piece(mover, PAWN) ELSE arrived
      rookFrom == IF m.castling = "K" THEN 7 ELSE 0
      rookTo == IF m.castling = "K" THEN 5 ELSE 3
  IN [r \in 0..7 |-> [c \in 0..7 |->
        IF r = m.from.row /\ c = m.from.col THEN original
        ELSE IF r = m.to.row /\ c = m.to.col THEN lastEntry.captured
        ELSE IF m.enPassant /\ r = m.from.row /\ c = m.to.col
             THEN Piece(opponent(mover), PAWN)
        ELSE IF m.castling # "-" /\ r = m.from.row /\ c = rookFrom
             THEN state.board[r][rookTo]
        ELSE IF m.castling # "-" /\ r = m.from.row /\ c = rookTo THEN EMPTY
        ELSE state.board[r][c]]]

\* Predecessors that differ from prev in the half-move clock only, or in the
\* side to move only. When prev has an empty history they are what stateFromFEN
\* returns for prev's position with the fifth, or the second, field changed.
otherClock == [prev EXCEPT !.halfMoveClock = @ + 1]
otherTurn == [prev EXCEPT !.turn = opponent(@)]

\* C25 as stated: after a successful makeMove on a freshly loaded position, no
\* predecessor that differs in the half-move clock or in the side to move gives
\* the same successor (and so the same last history entry).
C25_UndoSufficiency ==
  (ret = "state" /\ prev.moveHistory = <<>>) =>
    /\ makeMove(otherClock, move) # state
    /\ makeMove(otherTurn, move) # state

\* C25, the part that holds: after a legal move the predecessor's board, side to move,
\* castling rights and en-passant target are rebuilt from the successor and its
\* last history entry; the half-move clock is the successor's minus one when
\* the successor's is positive, and when it is zero a predecessor with another
\* clock gives the same successor.
C25_UndoWithoutResetClock ==
  lastMoveLegal =>
    /\ lastEntry.move = move
    /\ undoBoard = prev.board
    /\ opponent(state.turn) = prev.turn
    /\ lastEntry.prevCastling = prev.castling
    /\ lastEntry.prevEnPassant = prev.enPassant
    /\ state.halfMoveClock > 0 => prev.halfMoveClock = state.halfMoveClock - 1
    /\ (state.halfMoveClock = 0 /\ prev.halfMoveClock + 1 < FiftyMoveLimit)
          => makeMove(otherClock, move) = state

C25_Witness ==
  /\ lastMoveLegal
  /\ state.halfMoveClock = 0
  /\ prev.halfMoveClock > 0
  /\ makeMove(otherClock, move) = state

\* ───────── C26: king invariant ─────────
kings(board, color) ==
  { sq \in { Sq(r, c) : r \in 0..7, c \in 0..7 } : board[sq.row][sq.col] = Piece(color, KING) }

\* C26: in every state reached from createInitialState by legal moves there is
\* exactly one king of each colour, and the king of the side that just moved is
\* not attacked by the side to move.
C26_KingInvariant ==
  fromStart =>
    /\ \A color \in Colors : Cardinality(kings(state.board, color)) = 1
    /\ \A sq \in kings(state.board, opponent(state.turn)) :
         ~attackedBy(state.board, sq, state.turn)

\* a legal move was made from the start although a pseudo-legal move of the
\* mover would have left the mover's king attacked
C26_Witness ==
  /\ fromStart
  /\ lastMoveLegal
  /\ Len(state.moveHistory) > 0
  /\ Len(getLegalMoves(prev, prev.turn)) < Len(getPseudoMoves(prev, prev.turn))

\* ───────── C27: castling-right invariant ─────────
\* C27: in every state reached from createInitialState by legal moves, a right
\* that is set has that colour's king on column 4 of its home row and a rook of
\* that colour on the matching corner; a right that was cleared before a move is
\* still cleared after it.
C27_CastlingRightInvariant ==
  \A color \in Colors : \A side \in {"K", "Q"} :
    LET home == IF color = WHITE THEN 7 ELSE 0
        corner == IF side = "K" THEN 7 ELSE 0
    IN /\ (fromStart /\ castleRight(state.castling, color, side))
            => /\ state.board[home][4] = Piece(color, KING)
               /\ state.board[home][corner] = Piece(color, ROOK)
       /\ (ret = "state" /\ ~castleRight(prev.castling, color, side))
            => ~castleRight(state.castling, color, side)

\* a move made after a rook left its corner: the right cleared then is still
\* cleared, and the other right of that colour is still set
C27_Witness ==
  /\ fromStart
  /\ lastMoveLegal
  /\ \E color \in Colors : \E side \in {"K", "Q"} :
       /\ ~castleRight(prev.castling, color, side)
       /\ ~castleRight(state.castling, color, side)
       /\ castleRight(state.castling, color, IF side = "K" THEN "Q" ELSE "K")
       /\ prev.board[IF color = WHITE THEN 7 ELSE 0][IF side = "K" THEN 7 ELSE 0] = EMPTY

\* ───────── C28: material conservation ─────────
piecesOnBoard(board, color) ==
  Cardinality({ sq \in (0..7) \X (0..7) : board[sq[1]][sq[2]].color = color })

\* plies played since the initial position, read off the move number and the
\* side to move
pliesPlayed == 2 * (state.fullMoveNumber - 1) + (IF state.turn = BLACK THEN 1 ELSE 0)

\* C28: in every state reached from createInitialState by legal moves, the
\* pieces of a colour on the board plus the entries of capturedPieces for that
\* colour are 16, and moveHistory and moveNotations are as long as the number of
\* plies played.
C28_MaterialConservation ==
  fromStart =>
    /\ \A color \in Colors :
         piecesOnBoard(state.board, color) + Len(state.capturedPieces[color]) = 16
    /\ Len(state.moveHistory) = pliesPlayed
    /\ Len(state.moveNotations) = pliesPlayed

\* an en-passant capture has just been made from the initial position
C28_Witness ==
  /\ fromStart
  /\ lastMoveLegal
  /\ move.enPassant
  /\ piecesOnBoard(state.board, state.turn) = 15
  /\ Len(state.capturedPieces[state.turn]) = 1
  /\ pliesPlayed >= 5

\* ───────── C29: the move returned by the search ─────────
\* C29: a move returned by getBestMove is one of getLegalMoves(state) for the
\* side to move; makeMove accepts it, the piece it moves belongs to the side to
\* move and the turn passes to the opponent.
C29_BestMoveLegal ==
  searched.result.move # Null =>
    LET chosen == searched.result.move
        legal == getLegalMoves(state, state.turn)
        next == makeMove(state, chosen)
    IN /\ \E i \in 1..Len(legal) : legal[i] = chosen
       /\ next # Null
       /\ state.board[chosen.from.row][chosen.from.col].color = state.turn
       /\ next.board[chosen.to.row][chosen.to.col].color = state.turn
       /\ next.turn = opponent(state.turn)

\* a search of depth two has returned a move for Black in a position where
\* some pseudo-legal moves of the side to move are not legal
C29_Witness ==
  /\ searched.depth >= 2
  /\ searched.result.move # Null
  /\ state.turn = BLACK
  /\ Len(getLegalMoves(state, state.turn)) < Len(getPseudoMoves(state, state.turn))

\* ───────── C30: attack detection and move generation ─────────
\* squares holding a piece of the colour opposite to byColor
targets(board, byColor) ==
  { sq \in { Sq(r, c) : r \in 0..7, c \in 0..7 } :
      board[sq.row][sq.col] # EMPTY /\ board[sq.row][sq.col].color # byColor }

\* byColor has a pseudo-legal move to the square that is neither castling nor an
\* en-passant capture
reachedByMove(s, sq, byColor) ==
  LET pseudo == getPseudoMoves(s, byColor)
  IN \E i \in 1..Len(pseudo) :
       pseudo[i].to = sq /\ pseudo[i].castling = "-" /\ ~pseudo[i].enPassant

\* C30: for either colour and every square that holds a piece of the other
\* colour, isSquareAttacked is true exactly when getPseudoMoves of the colour
\* has a move, neither castling nor en passant, whose destination is the square.
C30_AttackAgreesWithMoves ==
  \A byColor \in Colors : \A sq \in targets(state.board, byColor) :
    isSquareAttacked(state.board, sq.row, sq.col, byColor)
      <=> reachedByMove(state, sq, byColor)

\* a pawn attacks a piece, another piece of that colour is attacked by no one,
\* and a pawn stands right in front of a piece it cannot take
C30_Witness ==
  \E byColor \in Colors :
    LET pawnDir == IF byColor = WHITE THEN 1 ELSE -1
    IN /\ \E sq \in targets(state.board, byColor) :
            /\ isSquareAttacked(state.board, sq.row, sq.col, byColor)
            /\ stepHits(state.board, sq.row, sq.col, << <<pawnDir, -1>>, <<pawnDir, 1>> >>,
                        byColor, PAWN)
       /\ \E sq \in targets(state.board, byColor) :
            /\ ~isSquareAttacked(state.board, sq.row, sq.col, byColor)
            /\ inBounds(sq.row + pawnDir, sq.col)
            /\ state.board[sq.row + pawnDir][sq.col] = Piece(byColor, PAWN)

\* ───────── C31: en-passant moves capture a pawn ─────────
\* the en-passant moves getLegalMoves returns for the colour
enPassantMoves(s, color) ==
  LET legal == getLegalMoves(s, color)
  IN { legal[i] : i \in { j \in 1..Len(legal) : legal[j].enPassant } }

\* the destination is empty, an enemy pawn stands beside the origin on the
\* destination's column, and applying the move removes it
capturesPawn(board, color, m) ==
  /\ board[m.to.row][m.to.col] = EMPTY
  /\ board[m.from.row][m.to.col] = Piece(opponent(color), PAWN)
  /\ applyMoveToBoard(board, m)[m.from.row][m.to.col] = EMPTY

\* C31: in every state reached from createInitialState by legal moves, and for
\* either colour given to getLegalMoves, every returned move flagged enPassant
\* has an empty destination and an enemy pawn on (from.row, to.col), which its
\* application removes.
C31_EnPassantCapturesPawn ==
  fromStart =>
    \A color \in Colors : \A m \in enPassantMoves(state, color) :
      capturesPawn(state.board, color, m)

\* C31 for the side to move only: every en-passant move getLegalMoves returns
\* for state.turn captures an enemy pawn.
C31_EnPassantOfSideToMove ==
  fromStart =>
    \A m \in enPassantMoves(state, state.turn) : capturesPawn(state.board, state.turn, m)

C31_Witness ==
  /\ fromStart
  /\ enPassantMoves(state, state.turn) # {}
  /\ enPassantMoves(state, opponent(state.turn)) # {}

\* ───────── C32: promotion invariant ─────────
\* the indices of the generated moves of the colour from one square to another
sameSquares(pseudo, m) ==
  { j \in 1..Len(pseudo) : pseudo[j].from = m.from /\ pseudo[j].to = m.to }

\* C32: in every state reached from createInitialState by legal moves no pawn
\* stands on row 0 or row 7, and every generated pawn move that lands on the
\* mover's farthest rank appears exactly four times, once for each of Q, R, B
\* and N, and never without a promotion kind.
C32_PromotionInvariant ==
  fromStart =>
    /\ \A c \in 0..7 : state.board[0][c].type # PAWN /\ state.board[7][c].type # PAWN
    /\ \A color \in Colors :
         LET pseudo == getPseudoMoves(state, color)
             promoRow == IF color = WHITE THEN 0 ELSE 7
         IN \A i \in 1..Len(pseudo) :
              (/\ state.board[pseudo[i].from.row][pseudo[i].from.col].type = PAWN
               /\ pseudo[i].to.row = promoRow)
                => /\ pseudo[i].promotion \in {QUEEN, ROOK, BISHOP, KNIGHT}
                   /\ Cardinality(sameSquares(pseudo, pseudo[i])) = 4
                   /\ \A kind \in {QUEEN, ROOK, BISHOP, KNIGHT} :
                        \E j \in sameSquares(pseudo, pseudo[i]) : pseudo[j].promotion = kind

\* a pawn has just captured on the farthest rank and become a knight
C32_Witness ==
  /\ fromStart
  /\ lastMoveLegal
  /\ movedPiece.type = PAWN
  /\ capturedPiece # EMPTY
  /\ move.promotion = KNIGHT
  /\ state.board[move.to.row][move.to.col] = Piece(prev.turn, KNIGHT)

\* ───────── C33: the bot moves only its own colour ─────────
\* C33: every move botMove applies to gameState is a move of the colour opposite
\* to playerColor, and it is applied in the game in which its timer was set.
C33_BotMovesOwnColour ==
  (app.last.applied /\ app.last.position = Null) =>
    /\ app.last.color = opponent(app.last.playerColor)
    /\ app.last.tag = app.last.current

\* ───────── C34: the reply stays in its puzzle ─────────
\* C34: the bot's reply is applied only to the position in which the player's
\* correct move was made, and after loadPuzzle puzzleState is the puzzle's FEN
\* position with puzzleMoveIndex = 0 until the player makes a move.
C34_ReplyStaysInPuzzle ==
  /\ (app.last.applied /\ app.last.position # Null) => app.last.on = app.last.position
  /\ (app.puzzleState # Null /\ ~app.moved)
       => /\ app.puzzleState = stateFromFEN(Puzzles[app.currentPuzzleIndex + 1].fen)
          /\ app.puzzleMoveIndex = 0

====
